---------------------------- MODULE Spec2Model ----------------------------
(***************************************************************************)
(* A model of the cryfs blob storage core: leaf nodes (data_leaf_node.rs), *)
(* the data tree store (store.rs) and the data tree it hands out.          *)
(*                                                                         *)
(* The block store is a map from block ids to blocks.  A block is the      *)
(* parsed view of its bytes (binary_layout node::View): the header fields  *)
(* format_version, unused, depth, size and the payload region.  For a leaf *)
(* the payload is max_bytes_per_leaf bytes of data; for an inner node it   *)
(* is the list of child block ids.                                         *)
(*                                                                         *)
(* The specifications share the variables:                                 *)
(*   Spec        the tree store: create/try_create/load/remove trees,      *)
(*               resize and write them.                                    *)
(*   TreeSpec    the same operations on a single tree.                     *)
(*   LeafSpec    one leaf node handle over the node store: create, resize, *)
(*               write through data_mut, drop and reload.                  *)
(*   LoadSpec    loading a block of unknown contents as a leaf.            *)
(*   BufferSpec  a GrowableData buffer (growable_data.rs): into_subregion  *)
(*               and leaf serialization at byte level.                     *)
(***************************************************************************)
EXTENDS Integers, Sequences, FiniteSets, TLC

VARIABLES
    blocks,   \* the block store: block id -> block, or NoBlock
    roots,    \* root ids of the trees handed out by create_tree / try_create_tree
    leaf,     \* LeafSpec: the leaf node held in memory, or NoLeaf
    last,     \* the last operation and what it returned
    buf,      \* BufferSpec: the GrowableData buffer, or NoBuf
    hist      \* history: LeafSpec: `last` of the step before; BufferSpec: the raw
              \* vector buf was made from and what was dropped from it since

vars == <<blocks, roots, leaf, last, buf, hist>>

---------------------------------------------------------------------------
(* Bounds of the model *)

\* number of block ids the block store can hand out
NumIds == 6
\* largest blob size (bytes) a resize or write may ask for
MaxBytes == 5
\* number of trees alive at one time
MaxTrees == 2
\* longest data slice a single write_bytes call writes
MaxWriteLen == 2
MaxReadLen == 3
MaxPayloadLen == 2
MaxTamper == 2
NumProcs == 2
\* LeafSpec: number of leaf blocks in the node store
MaxLeaves == 2
\* BufferSpec: longest raw vector a buffer is made from
MaxRawLen == 11
\* BufferSpec: most bytes one into_subregion call drops at either end
MaxDrop == 4

Ids == 1..NumIds
\* the ids callers pass to try_create_tree
CallerIds == {2, NumIds}
\* byte values: the zero byte and one non-zero byte
Byte == {0, 1}

---------------------------------------------------------------------------
(* Node layout (layout.rs is not part of the sources; values from the spec) *)

FORMAT_VERSION_HEADER == 0
\* node::data::OFFSET
HEADER_SIZE == 8
\* a block id takes one payload unit in the model (16 bytes in the program)
BLOCK_ID_SIZE == 1
\* NodeLayout.block_size_bytes of the store under test
block_size_bytes == 10
MAX_DEPTH == 10

layout_max_bytes_per_leaf(bsz) == bsz - HEADER_SIZE
layout_max_children_per_inner_node(bsz) == (bsz - HEADER_SIZE) \div BLOCK_ID_SIZE

MBL == layout_max_bytes_per_leaf(block_size_bytes)
K == layout_max_children_per_inner_node(block_size_bytes)

---------------------------------------------------------------------------
(* Helpers *)

Min(a, b) == IF a < b THEN a ELSE b
Max(a, b) == IF a > b THEN a ELSE b
CeilDiv(a, b) == (a + b - 1) \div b

RECURSIVE Pow(_, _)
Pow(b, e) == IF e = 0 THEN 1 ELSE b * Pow(b, e - 1)

Zeroes(n) == [i \in 1..n |-> 0]

\* all byte sequences of length lo..hi
ByteSeqs(lo, hi) == UNION {[1..n -> Byte] : n \in lo..hi}

NoBlock == [absent |-> TRUE]
NoLeaf == [absent |-> TRUE]
NoBuf == [absent |-> TRUE]

Exists(bs, id) == bs[id] # NoBlock
FreeIds(bs) == {id \in Ids : bs[id] = NoBlock}
\* the block store's create(): a fresh id (the smallest unused one)
FreshId(bs) == CHOOSE id \in FreeIds(bs) : \A j \in FreeIds(bs) : id <= j

InnerBlock(d, children) ==
    [format_version |-> FORMAT_VERSION_HEADER, unused |-> 0, depth |-> d,
     size |-> Len(children), children |-> children]

---------------------------------------------------------------------------
(* Data (data.rs is not part of the sources; behaviour from the spec,      *)
(* section 4.1): an allocation `storage` of which the bytes                *)
(* begin+1 .. end are visible.  The bytes before and after the visible     *)
(* region are the prefix and suffix reserve.                               *)

Data_from(raw) == [storage |-> raw, begin |-> 0, end |-> Len(raw)]

Data_len(d) == d.end - d.begin

Data_as_ref(d) == SubSeq(d.storage, d.begin + 1, d.end)

Data_available_prefix_bytes(d) == d.begin

Data_available_suffix_bytes(d) == Len(d.storage) - d.end

\* shrink_to_subregion(start..end), the range relative to the visible region
shrink_to_subregion(d, start, end) ==
    [d EXCEPT !.begin = d.begin + start, !.end = d.begin + end]

\* grow_region_fail_if_reallocation_necessary: [ok, data]; never reallocates
grow_region_fail_if_reallocation_necessary(d, add_prefix, add_suffix) ==
    IF /\ add_prefix <= Data_available_prefix_bytes(d)
       /\ add_suffix <= Data_available_suffix_bytes(d)
    THEN [ok |-> TRUE,
          data |-> [d EXCEPT !.begin = d.begin - add_prefix,
                             !.end = d.end + add_suffix]]
    ELSE [ok |-> FALSE, data |-> d]

\* the visible bytes replaced by `bytes` (a write through as_mut)
Data_with_bytes(d, bytes) ==
    [d EXCEPT !.storage = SubSeq(d.storage, 1, d.begin) \o bytes
                          \o SubSeq(d.storage, d.end + 1, Len(d.storage))]

---------------------------------------------------------------------------
(* GrowableData (growable_data.rs): a Data and the prefix and suffix bytes *)
(* its type promises (the typenum parameters PrefixBytes, SuffixBytes).    *)

GrowableData(d, PrefixBytes, SuffixBytes) ==
    [data |-> d, PrefixBytes |-> PrefixBytes, SuffixBytes |-> SuffixBytes]

\* From<Vec<u8>> for GrowableData<U0, U0>
GrowableData_from(raw) == GrowableData(Data_from(raw), 0, 0)

available_prefix_bytes(g) == g.PrefixBytes

available_suffix_bytes(g) == g.SuffixBytes

GrowableData_len(g) == Data_len(g.data)

as_ref(g) == Data_as_ref(g.data)

extract(g) == g.data

check_invariant(g) ==
    /\ Data_available_prefix_bytes(g.data) >= g.PrefixBytes
    /\ Data_available_suffix_bytes(g.data) >= g.SuffixBytes

\* TryFrom<Data> that takes the type's word for the reserves
GrowableData_try_from_unchecked(d, PrefixBytes, SuffixBytes) ==
    [res |-> "Ok", buf |-> GrowableData(d, PrefixBytes, SuffixBytes)]

\* TryFrom<Data> for GrowableData<PrefixBytes, SuffixBytes>: [res, buf]
GrowableData_try_from(d, PrefixBytes, SuffixBytes) ==
    IF Data_available_prefix_bytes(d) # PrefixBytes THEN [res |-> "Err", buf |-> NoBuf]
    ELSE IF Data_available_suffix_bytes(d) # SuffixBytes THEN [res |-> "Err", buf |-> NoBuf]
    ELSE [res |-> "Ok", buf |-> GrowableData(d, PrefixBytes, SuffixBytes)]

\* grow_region that leaves the end of the region where it was
grow_region_front_only(g, AddNumBytesAtBeginning, AddNumBytesAtEnd) ==
    LET grown == grow_region_fail_if_reallocation_necessary(
                     g.data, AddNumBytesAtBeginning, 0)
    IN  [res |-> "Ok",
         buf |-> GrowableData(grown.data,
                              g.PrefixBytes - AddNumBytesAtBeginning,
                              g.SuffixBytes - AddNumBytesAtEnd)]

\* grow_region::<AddNumBytesAtBeginning, AddNumBytesAtEnd>(): [res, buf].
\* The result type exists only when PrefixBytes - AddNumBytesAtBeginning and
\* SuffixBytes - AddNumBytesAtEnd do; callers are held to that by the compiler.
grow_region(g, AddNumBytesAtBeginning, AddNumBytesAtEnd) ==
    LET grown == grow_region_fail_if_reallocation_necessary(
                     g.data, AddNumBytesAtBeginning, AddNumBytesAtEnd)
        result == GrowableData(grown.data,
                               g.PrefixBytes - AddNumBytesAtBeginning,
                               g.SuffixBytes - AddNumBytesAtEnd)
    IN  IF ~grown.ok THEN [res |-> "panic", buf |-> NoBuf]
        ELSE IF check_invariant(result) THEN [res |-> "Ok", buf |-> result]
        ELSE [res |-> "panic", buf |-> NoBuf]

\* into_subregion whose end is taken from the shrunk length
into_subregion_short_end(g, DeleteNumBytesAtBeginning, DeleteNumBytesAtEnd) ==
    IF DeleteNumBytesAtBeginning + DeleteNumBytesAtEnd > GrowableData_len(g)
    THEN [res |-> "panic", buf |-> NoBuf]
    ELSE [res |-> "Ok",
          buf |-> GrowableData(
                     shrink_to_subregion(g.data, DeleteNumBytesAtBeginning,
                         GrowableData_len(g) - DeleteNumBytesAtEnd - DeleteNumBytesAtBeginning),
                     g.PrefixBytes + DeleteNumBytesAtBeginning,
                     g.SuffixBytes + DeleteNumBytesAtEnd)]

\* into_subregion whose assertion refuses to drop the whole region
into_subregion_strict(g, DeleteNumBytesAtBeginning, DeleteNumBytesAtEnd) ==
    IF DeleteNumBytesAtBeginning + DeleteNumBytesAtEnd >= GrowableData_len(g)
    THEN [res |-> "panic", buf |-> NoBuf]
    ELSE [res |-> "Ok",
          buf |-> GrowableData(
                     shrink_to_subregion(g.data, DeleteNumBytesAtBeginning,
                                         GrowableData_len(g) - DeleteNumBytesAtEnd),
                     g.PrefixBytes + DeleteNumBytesAtBeginning,
                     g.SuffixBytes + DeleteNumBytesAtEnd)]

\* into_subregion::<DeleteNumBytesAtBeginning, DeleteNumBytesAtEnd>():
\* [res, buf]; self is consumed, so a panic leaves no buffer
into_subregion(g, DeleteNumBytesAtBeginning, DeleteNumBytesAtEnd) ==
    IF ~(DeleteNumBytesAtBeginning + DeleteNumBytesAtEnd <= GrowableData_len(g))
    THEN [res |-> "panic", buf |-> NoBuf]
    ELSE LET result ==
                 GrowableData(
                     shrink_to_subregion(g.data, DeleteNumBytesAtBeginning,
                                         GrowableData_len(g) - DeleteNumBytesAtEnd),
                     g.PrefixBytes + DeleteNumBytesAtBeginning,
                     g.SuffixBytes + DeleteNumBytesAtEnd)
         IN  IF check_invariant(result)
             THEN [res |-> "Ok", buf |-> result]
             ELSE [res |-> "panic", buf |-> NoBuf]

---------------------------------------------------------------------------
(* The node header as bytes (binary layout `node`; layout.rs is not part   *)
(* of the sources, field order and widths from the spec, section 3):       *)
(* format_version u16, unused u8, depth u8, size u32, then the payload.    *)

\* format_version: big-endian u16
u16_bytes(v) == <<(v \div 256) % 256, v % 256>>
u16_read(b) == b[1] * 256 + b[2]
\* size / num_children: little-endian u32
u32_bytes(v) ==
    <<v % 256, (v \div 256) % 256, (v \div 65536) % 256, (v \div 16777216) % 256>>
u32_read(b) == b[1] + b[2] * 256 + b[3] * 65536 + b[4] * 16777216

\* node::View::new(bytes): the header fields and the payload region
node_View(bytes) ==
    [format_version |-> u16_read(SubSeq(bytes, 1, 2)),
     unused |-> bytes[3],
     depth |-> bytes[4],
     size |-> u32_read(SubSeq(bytes, 5, 8)),
     data |-> SubSeq(bytes, HEADER_SIZE + 1, Len(bytes))]

\* the bytes after the four header fields were written through the view
write_header(bytes, format_version, unused, depth, size) ==
    u16_bytes(format_version) \o <<unused % 256, depth % 256>> \o u32_bytes(size)
        \o SubSeq(bytes, HEADER_SIZE + 1, Len(bytes))

---------------------------------------------------------------------------
(* DataLeafNode (data_leaf_node.rs) *)

\* length in bytes of the block a leaf wraps
block_len(block) == HEADER_SIZE + Len(block.data)

num_bytes(block) == block.size

max_bytes_per_leaf(block) == layout_max_bytes_per_leaf(block_len(block))

\* resize that never zeroes the bytes it drops
resize_no_zeroing(block, new_num_bytes) ==
    [block EXCEPT !.size = new_num_bytes]

\* resize that zeroes the dropped bytes but never writes the size field
resize_keeps_size(block, new_num_bytes) ==
    [block EXCEPT !.data =
        [i \in 1..Len(block.data) |->
            IF i > new_num_bytes /\ i <= block.size THEN 0 ELSE block.data[i]]]

\* resize that leaves the first dropped byte as it was
resize_zeroes_short(block, new_num_bytes) ==
    [block EXCEPT
        !.data = [i \in 1..Len(block.data) |->
                    IF i > new_num_bytes + 1 /\ i <= block.size
                    THEN 0 ELSE block.data[i]],
        !.size = new_num_bytes]

\* resize that clears the whole payload when it shrinks the leaf
resize_zeroes_all(block, new_num_bytes) ==
    [block EXCEPT
        !.data = IF new_num_bytes < block.size
                 THEN [i \in 1..Len(block.data) |-> 0] ELSE block.data,
        !.size = new_num_bytes]

\* the assertion comparing against the block length instead of the payload length
resize_assertion_block_len(block, new_num_bytes) ==
    new_num_bytes <= block_len(block)

\* the assertion at the top of resize
resize_assertion(block, new_num_bytes) ==
    new_num_bytes <= max_bytes_per_leaf(block)

\* resize, past its assertion
resize(block, new_num_bytes) ==
    LET old_num_bytes == block.size
        zeroed == [i \in 1..Len(block.data) |->
                     IF i > new_num_bytes /\ i <= old_num_bytes
                     THEN 0 ELSE block.data[i]]
    IN  [block EXCEPT
            !.data = IF new_num_bytes < old_num_bytes THEN zeroed ELSE block.data,
            !.size = new_num_bytes]

\* data() handing out the whole payload region
data_whole(block) == block.data

data(block) == SubSeq(block.data, 1, block.size)

\* data_mut(): the mutable slice of the first `size` payload bytes
data_mut(block) == SubSeq(block.data, 1, block.size)

\* data_mut handing out a copy: what the caller writes is lost
with_data_mut_lost(block, slice) == block

\* the block after the caller left `slice` in the slice data_mut() handed out
with_data_mut(block, slice) ==
    [block EXCEPT !.data =
        slice \o SubSeq(block.data, Len(slice) + 1, Len(block.data))]

\* slice[offset .. offset + src.len()].copy_from_slice(src)
copy_from_slice(slice, offset, src) ==
    [i \in 1..Len(slice) |->
        IF i > offset /\ i <= offset + Len(src) THEN src[i - offset]
        ELSE slice[i]]

\* DataLeafNode::new that does not look at the size field
DataLeafNode_new_any_size(block, bsz) ==
    IF block.format_version # FORMAT_VERSION_HEADER THEN "err"
    ELSE IF block.depth # 0 THEN "panic"
    ELSE IF ~(block_len(block) > HEADER_SIZE) THEN "panic"
    ELSE "ok"

\* DataLeafNode::new: "ok" when the loaded block is accepted as a leaf, "err"
\* for the two ensure! checks, "panic" for the two assertions
DataLeafNode_new(block, bsz) ==
    IF block.format_version # FORMAT_VERSION_HEADER THEN "err"
    ELSE IF block.depth # 0 THEN "panic"
    ELSE IF ~(block_len(block) > HEADER_SIZE) THEN "panic"
    ELSE IF block.size > layout_max_bytes_per_leaf(bsz) THEN "err"
    ELSE "ok"

\* the assertions of serialize_leaf_node_optimized without the one on data.len()
serialize_assertions_any_len(d, n, bsz) ==
    /\ n <= layout_max_bytes_per_leaf(bsz)
    /\ Data_available_prefix_bytes(d) >= HEADER_SIZE

\* the three assertions at the top of serialize_leaf_node_optimized
serialize_assertions(d, n, bsz) ==
    /\ layout_max_bytes_per_leaf(bsz) = Data_len(d)
    /\ n <= layout_max_bytes_per_leaf(bsz)
    /\ Data_available_prefix_bytes(d) >= HEADER_SIZE

\* the header of a leaf written with the size of a full leaf
write_leaf_header_full(bytes, n) ==
    write_header(bytes, FORMAT_VERSION_HEADER, 0, 0, Len(bytes) - HEADER_SIZE)

\* the four header writes of serialize_leaf_node_optimized
write_leaf_header(bytes, n) ==
    write_header(bytes, FORMAT_VERSION_HEADER, 0, 0, n)

\* serialize_leaf_node_optimized(data, num_bytes, layout): [res, data]
serialize_leaf_node_optimized(d, n, bsz) ==
    IF ~serialize_assertions(d, n, bsz) THEN [res |-> "panic", data |-> NoBuf]
    ELSE LET grown == grow_region_fail_if_reallocation_necessary(d, HEADER_SIZE, 0)
         IN  IF ~grown.ok THEN [res |-> "panic", data |-> NoBuf]
             ELSE [res |-> "Ok",
                   data |-> Data_with_bytes(grown.data,
                               write_leaf_header(Data_as_ref(grown.data), n))]

\* DataNodeStore::create_new_leaf_node: pad the payload with zeroes to a full
\* leaf in a buffer with room for the header, serialize, and hand the block on
padded(payload) == payload \o Zeroes(MBL - Len(payload))
leaf_buffer(payload) ==
    shrink_to_subregion(Data_from(Zeroes(HEADER_SIZE) \o payload),
                        HEADER_SIZE, HEADER_SIZE + Len(payload))
\* the block, as the node store sees it, of a full-length payload with n bytes in use
serialized_leaf(payload, n) ==
    node_View(Data_as_ref(
        serialize_leaf_node_optimized(leaf_buffer(payload), n,
                                      block_size_bytes).data))
new_leaf_block(payload) == serialized_leaf(padded(payload), Len(payload))

---------------------------------------------------------------------------
(* DataTree (tree.rs is not part of the sources; algorithms from the spec, *)
(* section 4.4).  Every operator takes the block store bs and returns the  *)
(* block store after the operation.                                        *)

IsLeaf(bs, id) == bs[id].depth = 0
LastChild(node) == node.children[Len(node.children)]

\* num_bytes(): walk the rightmost path
RECURSIVE tree_num_bytes(_, _)
tree_num_bytes(bs, id) ==
    LET node == bs[id] IN
    IF node.depth = 0 THEN num_bytes(node)
    ELSE (Len(node.children) - 1) * Pow(K, node.depth - 1) * MBL
         + tree_num_bytes(bs, LastChild(node))

RECURSIVE tree_num_leaves(_, _)
tree_num_leaves(bs, id) ==
    LET node == bs[id] IN
    IF node.depth = 0 THEN 1
    ELSE (Len(node.children) - 1) * Pow(K, node.depth - 1)
         + tree_num_leaves(bs, LastChild(node))

\* nodes of a left-max-data tree of depth d with nl leaves
RECURSIVE NodesFor(_, _)
NodesFor(nl, d) == IF d = 0 THEN nl ELSE nl + NodesFor(CeilDiv(nl, K), d - 1)

\* num_nodes(): from the leaf count and the depth
tree_num_nodes(bs, id) == NodesFor(tree_num_leaves(bs, id), bs[id].depth)

\* smallest depth whose full tree holds nl leaves
RECURSIVE DepthFor(_, _)
DepthFor(nl, d) == IF Pow(K, d) >= nl THEN d ELSE DepthFor(nl, d + 1)

\* all_blocks(): the ids of the nodes reachable from id
RECURSIVE all_blocks(_, _)
all_blocks(bs, id) ==
    IF ~Exists(bs, id) THEN {}
    ELSE IF bs[id].depth = 0 THEN {id}
    ELSE {id} \cup UNION {all_blocks(bs, bs[id].children[i]) :
                              i \in 1..Len(bs[id].children)}

\* the leaf with index idx below id, by index arithmetic with fanout K
RECURSIVE LeafAt(_, _, _)
LeafAt(bs, id, idx) ==
    LET node == bs[id] IN
    IF node.depth = 0 THEN id
    ELSE LET cap == Pow(K, node.depth - 1)
         IN  LeafAt(bs, node.children[(idx \div cap) + 1], idx % cap)

\* read_bytes(offset, buf) with len = buf.len(), for offset + len <= num_bytes
read_bytes(bs, root, offset, len) ==
    [i \in 1..len |->
        LET p == offset + i - 1
            lf == bs[LeafAt(bs, root, p \div MBL)]
        IN  data(lf)[(p % MBL) + 1]]

\* a read that also refuses a range ending exactly at the end of the blob
read_bytes_fails_at_end(bs, root, offset, len) ==
    IF offset + len >= tree_num_bytes(bs, root)
    THEN [res |-> "OutOfRange", buf |-> <<>>, bs |-> bs]
    ELSE [res |-> "Ok", buf |-> read_bytes(bs, root, offset, len), bs |-> bs]

\* read_bytes(offset, buf) as the caller sees it: OutOfRange when the range
\* ends past num_bytes(), else the per-leaf reads; returns [res, buf, bs]
DataTree_read_bytes(bs, root, offset, len) ==
    IF offset + len > tree_num_bytes(bs, root)
    THEN [res |-> "OutOfRange", buf |-> <<>>, bs |-> bs]
    ELSE [res |-> "Ok", buf |-> read_bytes(bs, root, offset, len), bs |-> bs]

\* try_read_bytes(offset, buf): the range is clamped to the bytes the blob
\* has, then read like read_bytes; returns [res, n, buf, bs], n the count read
try_read_bytes(bs, root, offset, len) ==
    LET end == Min(offset + len, tree_num_bytes(bs, root))
        begin == Min(offset, end)
        r == DataTree_read_bytes(bs, root, begin, end - begin)
    IN  [res |-> r.res, n |-> Len(r.buf), buf |-> r.buf, bs |-> r.bs]

\* the whole blob
tree_data(bs, root) == read_bytes(bs, root, 0, tree_num_bytes(bs, root))

\* remove(): post-order removal of every node below and including id
RECURSIVE remove_subtree(_, _)
RECURSIVE remove_all(_, _)
\* A removal that deletes the leaves below a node but keeps inner nodes.
remove_subtree_keeps_inner(bs, id) ==
    LET node == bs[id] IN
    IF node.depth = 0 THEN [bs EXCEPT ![id] = NoBlock]
    ELSE remove_all(bs, node.children)

remove_subtree(bs, id) ==
    LET node == bs[id] IN
    IF node.depth = 0 THEN [bs EXCEPT ![id] = NoBlock]
    ELSE [remove_all(bs, node.children) EXCEPT ![id] = NoBlock]
remove_all(bs, ids) ==
    IF ids = <<>> THEN bs
    ELSE remove_all(remove_subtree(bs, Head(ids)), Tail(ids))

\* Growing, step 4: build new subtrees bottom-up.  create_subtree returns
\* [bs, id]; create_children returns [bs, ids].  The subtrees hold nl leaves
\* in total; every leaf is full except the last, whose size is tail.
RECURSIVE create_subtree(_, _, _, _)
RECURSIVE create_children(_, _, _, _)
\* a subtree whose last leaf is created full, whatever tail_in_leaf is
create_subtree_full_tail(bs, d, nl, tail) ==
    IF d = 0
    THEN LET id == FreshId(bs)
         IN  [bs |-> [bs EXCEPT ![id] =
                        serialized_leaf(Zeroes(MBL), MBL)],
              id |-> id]
    ELSE LET ch == create_children(bs, d - 1, nl, tail)
             id == FreshId(ch.bs)
         IN  [bs |-> [ch.bs EXCEPT ![id] = InnerBlock(d, ch.ids)], id |-> id]

create_subtree(bs, d, nl, tail) ==
    IF d = 0
    THEN LET id == FreshId(bs)
         IN  [bs |-> [bs EXCEPT ![id] =
                        serialized_leaf(Zeroes(MBL), tail)],
              id |-> id]
    ELSE LET ch == create_children(bs, d - 1, nl, tail)
             id == FreshId(ch.bs)
         IN  [bs |-> [ch.bs EXCEPT ![id] = InnerBlock(d, ch.ids)], id |-> id]
create_children(bs, d, nl, tail) ==
    IF nl = 0 THEN [bs |-> bs, ids |-> <<>>]
    ELSE LET cap == Pow(K, d)
             here == Min(cap, nl)
             first == create_subtree(bs, d, here, IF nl > cap THEN MBL ELSE tail)
             rest == create_children(first.bs, d, nl - here, tail)
         IN  [bs |-> rest.bs, ids |-> <<first.id>> \o rest.ids]

\* Growing, steps 3-5: grow the subtree at id to nl leaves, the last of size tail
RECURSIVE grow_subtree(_, _, _, _)
grow_subtree(bs, id, nl, tail) ==
    LET node == bs[id] IN
    IF node.depth = 0 THEN [bs EXCEPT ![id] = resize(node, tail)]
    ELSE LET cap == Pow(K, node.depth - 1)
             covered == (Len(node.children) - 1) * cap
             lastTarget == Min(cap, nl - covered)
             lastTail == IF nl - covered > cap THEN MBL ELSE tail
             bs1 == grow_subtree(bs, LastChild(node), lastTarget, lastTail)
             more == create_children(bs1, node.depth - 1,
                                     nl - covered - lastTarget, tail)
         IN  [more.bs EXCEPT ![id] =
                 InnerBlock(node.depth, node.children \o more.ids)]

\* a lift that gives the new root the target depth in one step
lift_root_one_step(bs, root, d_new) ==
    IF bs[root].depth >= d_new THEN bs
    ELSE LET f == FreshId(bs)
         IN  [bs EXCEPT ![f] = bs[root],
                        ![root] = InnerBlock(d_new, <<f>>)]

\* Growing, step 2: lift the root until its depth is d_new; the root's old
\* contents move to a fresh id, the root id stays
RECURSIVE lift_root(_, _, _)
lift_root(bs, root, d_new) ==
    IF bs[root].depth >= d_new THEN bs
    ELSE LET f == FreshId(bs)
         IN  lift_root([bs EXCEPT ![f] = bs[root],
                                  ![root] = InnerBlock(bs[root].depth + 1, <<f>>)],
                       root, d_new)

\* a shrink that drops the surplus children but leaves the new rightmost leaf
\* at its old size
RECURSIVE shrink_subtree_keeps_leaf(_, _, _, _)
shrink_subtree_keeps_leaf(bs, id, nl, tail) ==
    LET node == bs[id] IN
    IF node.depth = 0 THEN bs
    ELSE LET cap == Pow(K, node.depth - 1)
             keep == CeilDiv(nl, cap)
             bs1 == remove_all(bs, SubSeq(node.children, keep + 1,
                                          Len(node.children)))
             bs2 == [bs1 EXCEPT ![id] =
                        InnerBlock(node.depth, SubSeq(node.children, 1, keep))]
         IN  shrink_subtree_keeps_leaf(bs2, node.children[keep],
                                       nl - (keep - 1) * cap, tail)

\* Shrinking, steps 2-3: keep the first nl leaves below id, the last of size tail
RECURSIVE shrink_subtree(_, _, _, _)
shrink_subtree(bs, id, nl, tail) ==
    LET node == bs[id] IN
    IF node.depth = 0 THEN [bs EXCEPT ![id] = resize(node, tail)]
    ELSE LET cap == Pow(K, node.depth - 1)
             keep == CeilDiv(nl, cap)
             bs1 == remove_all(bs, SubSeq(node.children, keep + 1,
                                          Len(node.children)))
             bs2 == [bs1 EXCEPT ![id] =
                        InnerBlock(node.depth, SubSeq(node.children, 1, keep))]
         IN  shrink_subtree(bs2, node.children[keep], nl - (keep - 1) * cap, tail)

\* Shrinking, step 4: while the root has exactly one child and is deeper than
\* d_new, replace the root's contents by the child's and remove the child
RECURSIVE peel_root(_, _, _)
peel_root(bs, root, d_new) ==
    LET node == bs[root] IN
    IF node.depth > d_new /\ Len(node.children) = 1
    THEN LET c == node.children[1]
         IN  peel_root([bs EXCEPT ![root] = bs[c], ![c] = NoBlock], root, d_new)
    ELSE bs

\* Shrinking, steps 2-4 and Growing, steps 2-5
resize_shrink(bs, root, L_new, tail_in_leaf, d_new) ==
    peel_root(shrink_subtree(bs, root, L_new, tail_in_leaf), root, d_new)
resize_grow(bs, root, L_new, tail_in_leaf, d_new) ==
    grow_subtree(lift_root(bs, root, d_new), root, L_new, tail_in_leaf)

\* resize_num_bytes(new_size)
resize_num_bytes(bs, root, new_size) ==
    LET cur == tree_num_bytes(bs, root)
        L_new == Max(1, CeilDiv(new_size, MBL))
        tail_in_leaf == new_size - (L_new - 1) * MBL
        d_new == DepthFor(L_new, 0)
    IN  IF new_size = cur THEN bs
        ELSE IF new_size < cur
        THEN resize_shrink(bs, root, L_new, tail_in_leaf, d_new)
        ELSE resize_grow(bs, root, L_new, tail_in_leaf, d_new)

\* the update of one leaf by write_bytes: the part of data that falls into
\* leaf number li; a leaf that is overwritten in full is created fresh
write_leaf(block, li, offset, src) ==
    LET lo == Max(offset, li * MBL)
        hi == Min(offset + Len(src), (li + 1) * MBL)
        part == SubSeq(src, lo - offset + 1, hi - offset)
    IN  IF hi - lo = MBL
        THEN serialized_leaf(part, MBL)
        ELSE with_data_mut(block, copy_from_slice(data_mut(block), lo - li * MBL, part))

\* a write that grows the tree to whole leaves
write_bytes_grows_whole_leaves(bs, root, offset, src) ==
    LET bs1 == IF offset + Len(src) > tree_num_bytes(bs, root)
               THEN resize_num_bytes(bs, root,
                                     CeilDiv(offset + Len(src), MBL) * MBL)
               ELSE bs
        first == offset \div MBL
        lastl == (offset + Len(src) - 1) \div MBL
        hit(id) == {li \in first..lastl : LeafAt(bs1, root, li) = id}
    IN  IF Len(src) = 0 THEN bs1
        ELSE [id \in Ids |->
                IF hit(id) # {}
                THEN write_leaf(bs1[id], CHOOSE li \in hit(id) : TRUE, offset, src)
                ELSE bs1[id]]

\* write_bytes(data, offset): grow first when the write ends past the end
write_bytes(bs, root, offset, src) ==
    LET bs1 == IF offset + Len(src) > tree_num_bytes(bs, root)
               THEN resize_num_bytes(bs, root, offset + Len(src))
               ELSE bs
        first == offset \div MBL
        lastl == (offset + Len(src) - 1) \div MBL
        hit(id) == {li \in first..lastl : LeafAt(bs1, root, li) = id}
    IN  IF Len(src) = 0 THEN bs1
        ELSE [id \in Ids |->
                IF hit(id) # {}
                THEN write_leaf(bs1[id], CHOOSE li \in hit(id) : TRUE, offset, src)
                ELSE bs1[id]]

\* blocks a resize to new_size has to create
BlocksNeeded(bs, root, new_size) ==
    LET L_new == Max(1, CeilDiv(new_size, MBL))
    IN  NodesFor(L_new, DepthFor(L_new, 0)) - tree_num_nodes(bs, root)

---------------------------------------------------------------------------
(* DataNodeStore (node store; contract from the spec, section 4.3) *)

\* load(id): the block, or NoBlock
load(bs, id) == bs[id]

\* create_new_leaf_node(payload): [bs, id] with a fresh id
create_new_leaf_node(bs, payload) ==
    LET id == FreshId(bs)
    IN  [bs |-> [bs EXCEPT ![id] = new_leaf_block(payload)], id |-> id]

\* try_create_new_leaf_node(id, payload): [bs, id], id = 0 when the id exists
try_create_new_leaf_node(bs, id, payload) ==
    IF Exists(bs, id) THEN [bs |-> bs, id |-> 0]
    ELSE [bs |-> [bs EXCEPT ![id] = new_leaf_block(payload)], id |-> id]

\* num_nodes(): the number of blocks of the store
num_nodes(bs) == Cardinality({id \in Ids : Exists(bs, id)})

---------------------------------------------------------------------------
(* DataTreeStore (store.rs).  A DataTree handle is its root node id; 0 is  *)
(* Option::None.                                                           *)

\* load_tree that returns a tree for every id
load_tree_always_some(bs, root_node_id) == root_node_id

\* load_tree that only loads a root that is a leaf
load_tree_leaf_only(bs, root_node_id) ==
    IF load(bs, root_node_id) = NoBlock \/ load(bs, root_node_id).depth # 0
    THEN 0 ELSE root_node_id

\* load_tree(root_node_id): the root id of the tree, or 0
load_tree(bs, root_node_id) ==
    IF load(bs, root_node_id) = NoBlock THEN 0 ELSE root_node_id

\* create_tree whose first leaf is not empty
create_tree_nonempty(bs) == create_new_leaf_node(bs, <<0>>)

\* create_tree(): [bs, id]
create_tree(bs) == create_new_leaf_node(bs, <<>>)

\* try_create_tree that overwrites a block that exists
try_create_tree_overwrite(bs, id) ==
    [bs |-> [bs EXCEPT ![id] = new_leaf_block(<<>>)], id |-> id]

\* try_create_tree(id): [bs, id], id = 0 for None
try_create_tree(bs, id) == try_create_new_leaf_node(bs, id, <<>>)

\* remove_tree_by_id that removes the root block only
remove_tree_by_id_root_only(bs, root_node_id) ==
    IF load_tree(bs, root_node_id) # 0
    THEN [bs |-> [bs EXCEPT ![root_node_id] = NoBlock],
          res |-> "SuccessfullyRemoved"]
    ELSE [bs |-> bs, res |-> "NotRemovedBecauseItDoesntExist"]

\* remove_tree_by_id that removes every block of the store
remove_tree_by_id_all(bs, root_node_id) ==
    IF load_tree(bs, root_node_id) # 0
    THEN [bs |-> [id \in Ids |-> NoBlock], res |-> "SuccessfullyRemoved"]
    ELSE [bs |-> bs, res |-> "NotRemovedBecauseItDoesntExist"]

\* remove_tree_by_id that reports success for an id without a block
remove_tree_by_id_always_ok(bs, root_node_id) ==
    IF load_tree(bs, root_node_id) # 0
    THEN [bs |-> remove_subtree(bs, load_tree(bs, root_node_id)),
          res |-> "SuccessfullyRemoved"]
    ELSE [bs |-> bs, res |-> "SuccessfullyRemoved"]

\* remove_tree_by_id(root_node_id): [bs, res]
remove_tree_by_id(bs, root_node_id) ==
    IF load_tree(bs, root_node_id) # 0
    THEN [bs |-> remove_subtree(bs, load_tree(bs, root_node_id)),
          res |-> "SuccessfullyRemoved"]
    ELSE [bs |-> bs, res |-> "NotRemovedBecauseItDoesntExist"]

---------------------------------------------------------------------------
(* The tree store as a state machine (Spec): up to MaxTrees trees in one   *)
(* store.  Every action is one call of the public interface, run to its    *)
(* end.                                                                    *)

\* last: the operation of the last step, what it returned, and (TreeSpec,
\* LeafSpec) its size or offset argument and the data it was given
Ret(op, res, arg, src) == [op |-> op, res |-> res, arg |-> arg, src |-> src]

\* bytes held by all trees together
RECURSIVE TotalBytes(_, _)
TotalBytes(bs, rs) ==
    IF rs = {} THEN 0
    ELSE LET r == CHOOSE x \in rs : TRUE
         IN  tree_num_bytes(bs, r) + TotalBytes(bs, rs \ {r})

\* the store has room for tree id to take new_size bytes
HasRoom(id, new_size) ==
    /\ TotalBytes(blocks, roots \ {id}) + new_size <= MaxBytes
    /\ BlocksNeeded(blocks, id, new_size) <= Cardinality(FreeIds(blocks))

Init ==
    /\ blocks = [id \in Ids |-> NoBlock]
    /\ roots = {}
    /\ leaf = NoLeaf
    /\ last = Ret("init", "Ok", 0, <<>>)
    /\ buf = NoBuf
    /\ hist = NoBuf

CreateTree ==
    /\ Cardinality(roots) < MaxTrees
    /\ FreeIds(blocks) # {}
    /\ LET r == create_tree(blocks)
       IN  /\ blocks' = r.bs
           /\ roots' = roots \cup {r.id}
    /\ last' = Ret("create_tree", "Some", 0, <<>>)
    /\ UNCHANGED leaf
    /\ UNCHANGED <<buf, hist>>

TryCreateTree(id) ==
    /\ Exists(blocks, id) \/ Cardinality(roots) < MaxTrees
    /\ LET r == try_create_tree(blocks, id)
       IN  /\ blocks' = r.bs
           /\ roots' = IF r.id # 0 THEN roots \cup {r.id} ELSE roots
           /\ last' = Ret("try_create_tree",
                          IF r.id # 0 THEN "Some" ELSE "None", 0, <<>>)
    /\ UNCHANGED leaf
    /\ UNCHANGED <<buf, hist>>

LoadTree(id) ==
    /\ last' = Ret("load_tree",
                   IF load_tree(blocks, id) # 0 THEN "Some" ELSE "None", 0, <<>>)
    /\ UNCHANGED <<blocks, roots, leaf>>
    /\ UNCHANGED <<buf, hist>>

\* remove_tree_by_id for the root id of a tree, or for an id without a block
RemoveTreeById(id) ==
    /\ id \in roots \/ ~Exists(blocks, id)
    /\ LET r == remove_tree_by_id(blocks, id)
       IN  /\ blocks' = r.bs
           /\ last' = Ret("remove_tree_by_id", r.res, 0, <<>>)
    /\ roots' = roots \ {id}
    /\ UNCHANGED leaf
    /\ UNCHANGED <<buf, hist>>

\* tree.resize_num_bytes(n) on a tree loaded by its root id
ResizeNumBytes(id, n) ==
    /\ HasRoom(id, n)
    /\ blocks' = resize_num_bytes(blocks, load_tree(blocks, id), n)
    /\ last' = Ret("resize_num_bytes", "Ok", 0, <<>>)
    /\ UNCHANGED <<roots, leaf>>
    /\ UNCHANGED <<buf, hist>>

\* tree.write_bytes(src, offset) on a tree loaded by its root id
WriteBytes(id, offset, src) ==
    /\ HasRoom(id, Max(offset + Len(src), tree_num_bytes(blocks, id)))
    /\ blocks' = write_bytes(blocks, load_tree(blocks, id), offset, src)
    /\ last' = Ret("write_bytes", "Ok", 0, <<>>)
    /\ UNCHANGED <<roots, leaf>>
    /\ UNCHANGED <<buf, hist>>

Next ==
    \/ CreateTree
    \/ \E id \in CallerIds : TryCreateTree(id)
    \/ \E id \in Ids : LoadTree(id)
    \/ \E id \in Ids : RemoveTreeById(id)
    \/ \E id \in roots, n \in 0..MaxBytes : ResizeNumBytes(id, n)
    \/ \E id \in roots, offset \in 0..MaxBytes, src \in ByteSeqs(0, MaxWriteLen) :
          WriteBytes(id, offset, src)

Spec == Init /\ [][Next]_vars

---------------------------------------------------------------------------
(* One tree (TreeSpec): the same operations on a single tree, with the     *)
(* arguments of the last call kept in `last`.                              *)

\* hist keeps the blob as it read before the last resize or write
TheTree == CHOOSE r \in roots : TRUE

TreeCreate ==
    /\ roots = {}
    /\ LET r == create_tree(blocks)
       IN  /\ blocks' = r.bs
           /\ roots' = {r.id}
    /\ last' = Ret("create_tree", "Some", 0, <<>>)
    /\ hist' = NoBuf
    /\ UNCHANGED <<leaf, buf>>

TreeTryCreate(id) ==
    /\ roots = {}
    /\ LET r == try_create_tree(blocks, id)
       IN  /\ blocks' = r.bs
           /\ roots' = IF r.id # 0 THEN {r.id} ELSE roots
           /\ last' = Ret("try_create_tree",
                          IF r.id # 0 THEN "Some" ELSE "None", 0, <<>>)
    /\ hist' = NoBuf
    /\ UNCHANGED <<leaf, buf>>

TreeRemove ==
    /\ roots # {}
    /\ LET r == remove_tree_by_id(blocks, TheTree)
       IN  /\ blocks' = r.bs
           /\ last' = Ret("remove_tree_by_id", r.res, 0, <<>>)
    /\ roots' = {}
    /\ hist' = NoBuf
    /\ UNCHANGED <<leaf, buf>>

TreeResize(n) ==
    /\ roots # {}
    /\ blocks' = resize_num_bytes(blocks, load_tree(blocks, TheTree), n)
    /\ last' = Ret("resize_num_bytes", "Ok", n, tree_data(blocks, TheTree))
    /\ hist' = [data |-> tree_data(blocks, TheTree)]
    /\ UNCHANGED <<roots, leaf, buf>>

TreeWrite(offset, src) ==
    /\ roots # {}
    /\ offset + Len(src) <= MaxBytes
    /\ blocks' = write_bytes(blocks, load_tree(blocks, TheTree), offset, src)
    /\ last' = Ret("write_bytes", "Ok", offset, src)
    /\ hist' = [data |-> tree_data(blocks, TheTree)]
    /\ UNCHANGED <<roots, leaf, buf>>

\* for the two reads hist keeps the buffer length and the blocks before
TreeRead(offset, len) ==
    /\ roots # {}
    /\ LET r == DataTree_read_bytes(blocks, load_tree(blocks, TheTree), offset, len)
       IN  /\ blocks' = r.bs
           /\ last' = Ret("read_bytes", r.res, offset, r.buf)
    /\ hist' = [len |-> len, bs |-> blocks]
    /\ UNCHANGED <<roots, leaf, buf>>

TreeTryRead(offset, len) ==
    /\ roots # {}
    /\ LET r == try_read_bytes(blocks, load_tree(blocks, TheTree), offset, len)
       IN  /\ blocks' = r.bs
           /\ last' = Ret("try_read_bytes", r.res, offset, r.buf)
           /\ hist' = [len |-> len, bs |-> blocks, n |-> r.n]
    /\ UNCHANGED <<roots, leaf, buf>>

TreeNext ==
    \/ TreeCreate
    \/ \E id \in CallerIds : TreeTryCreate(id)
    \/ TreeRemove
    \/ \E n \in 0..MaxBytes : TreeResize(n)
    \/ \E offset \in 0..MaxBytes, src \in ByteSeqs(0, MaxWriteLen) :
          TreeWrite(offset, src)

TreeSpec == Init /\ [][TreeNext]_vars

\* ReadSpec: one tree that is resized, written one byte at a time and read
ReadNext ==
    \/ TreeCreate
    \/ \E n \in 0..MaxBytes : TreeResize(n)
    \/ \E offset \in 0..MaxBytes : TreeWrite(offset, <<1>>)
    \/ \E offset \in 0..(MaxBytes + 1), len \in 0..MaxReadLen :
          TreeRead(offset, len)
    \/ \E offset \in 0..(MaxBytes + 1), len \in 0..MaxReadLen :
          TreeTryRead(offset, len)

ReadSpec == Init /\ [][ReadNext]_vars

---------------------------------------------------------------------------
(* One leaf node (LeafSpec): a DataLeafNode handle over the node store.    *)
(* The handle holds the block in memory; the store sees its bytes when the *)
(* handle is dropped.                                                      *)

LeafHandle(id, block) == [id |-> id, block |-> block]

LeafCreate(payload) ==
    /\ leaf = NoLeaf
    /\ num_nodes(blocks) < MaxLeaves
    /\ LET r == create_new_leaf_node(blocks, payload)
       IN  /\ blocks' = r.bs
           /\ leaf' = LeafHandle(r.id, r.bs[r.id])
    /\ last' = Ret("create_new_leaf_node", "Ok", 0, payload)
    /\ hist' = last
    /\ UNCHANGED <<roots, buf>>

\* leaf.resize(n); n larger than max_bytes_per_leaf fails the assertion at the
\* top of resize.  `last` keeps n and the data() the leaf had before the call.
LeafResize(n) ==
    /\ leaf # NoLeaf
    /\ IF resize_assertion(leaf.block, n)
       THEN /\ leaf' = [leaf EXCEPT !.block = resize(leaf.block, n)]
            /\ last' = Ret("resize", "Ok", n, data(leaf.block))
       ELSE /\ leaf' = leaf
            /\ last' = Ret("resize", "panic", n, data(leaf.block))
    /\ hist' = last
    /\ UNCHANGED <<blocks, roots, buf>>

\* leaf.data_mut()[offset .. offset + src.len()].copy_from_slice(src)
LeafWrite(offset, src) ==
    /\ leaf # NoLeaf
    /\ offset + Len(src) <= Len(data_mut(leaf.block))
    /\ leaf' = [leaf EXCEPT !.block =
                   with_data_mut(leaf.block,
                                 copy_from_slice(data_mut(leaf.block), offset, src))]
    /\ last' = Ret("data_mut", "Ok", offset, src)
    /\ hist' = last
    /\ UNCHANGED <<blocks, roots, buf>>

\* a drop that forgets the leaf without handing its block back
LeafDrop_discards ==
    /\ leaf # NoLeaf
    /\ leaf' = NoLeaf
    /\ last' = Ret("drop", "Ok", leaf.id, data(leaf.block))
    /\ hist' = last
    /\ UNCHANGED <<blocks, roots, buf>>

\* drop(leaf): the block goes back to the store.  `last` keeps the block id
\* and the data() the leaf had when it was dropped.
LeafDrop ==
    /\ leaf # NoLeaf
    /\ blocks' = [blocks EXCEPT ![leaf.id] = leaf.block]
    /\ leaf' = NoLeaf
    /\ last' = Ret("drop", "Ok", leaf.id, data(leaf.block))
    /\ hist' = last
    /\ UNCHANGED <<roots, buf>>

\* load the leaf with this id again
LeafLoad(id) ==
    /\ leaf = NoLeaf
    /\ Exists(blocks, id)
    /\ DataLeafNode_new(load(blocks, id), block_size_bytes) = "ok"
    /\ leaf' = LeafHandle(id, load(blocks, id))
    /\ last' = Ret("load", "Ok", id, <<>>)
    /\ hist' = last
    /\ UNCHANGED <<blocks, roots, buf>>

LeafNext ==
    \/ \E payload \in ByteSeqs(0, MBL) : LeafCreate(payload)
    \/ \E n \in 0..(MBL + 1) : LeafResize(n)
    \/ \E offset \in 0..MBL, src \in ByteSeqs(1, MBL) : LeafWrite(offset, src)
    \/ LeafDrop
    \/ \E id \in Ids : LeafLoad(id)

LeafSpec == Init /\ [][LeafNext]_vars

---------------------------------------------------------------------------
(* One buffer (BufferSpec): a GrowableData made from a raw vector, shrunk  *)
(* or from a Data by try_from, shrunk by into_subregion and re-expanded by  *)
(* grow_region calls, and handed (as a clone of its Data) to               *)
(* serialize_leaf_node_optimized.  hist is the raw vector, the bytes        *)
(* dropped from it so far at either end, and whether the buffer came from  *)
(* from(raw) by into_subregion calls only.                                 *)

\* data_region(size, seed): the reproducible bytes the buffers are made from
data_region(size, seed) == [i \in 1..size |-> (seed + i) % 256]

Seeds == {0, 250}

RawVectors == {data_region(size, seed) : size \in 0..MaxRawLen, seed \in Seeds}

\* the Data objects try_from is given: any region of a raw vector
DataObjects ==
    {shrink_to_subregion(Data_from(raw), start, end) :
        raw \in RawVectors, start \in 0..MaxDrop, end \in 0..MaxRawLen}

\* buf = raw.into()
BufferFrom(raw) ==
    /\ buf = GrowableData_from(raw)
    /\ hist = [raw |-> raw, front |-> 0, back |-> 0, only_sub |-> TRUE]
    /\ last = Ret("from", "Ok", 0, <<>>)

\* buf = GrowableData::<PrefixBytes, SuffixBytes>::try_from(d)
BufferTryFrom(d, PrefixBytes, SuffixBytes) ==
    /\ d.begin <= d.end
    /\ d.end <= Len(d.storage)
    /\ LET r == GrowableData_try_from(d, PrefixBytes, SuffixBytes)
       IN  /\ buf = r.buf
           /\ last = Ret("try_from", r.res, 0, <<>>)
    /\ hist = IF buf = NoBuf THEN NoBuf
              ELSE [raw |-> d.storage, front |-> Data_available_prefix_bytes(d),
                    back |-> Data_available_suffix_bytes(d), only_sub |-> FALSE]

BufferInit ==
    /\ blocks = [id \in Ids |-> NoBlock]
    /\ roots = {}
    /\ leaf = NoLeaf
    /\ \/ \E raw \in RawVectors : BufferFrom(raw)
       \/ \E d \in DataObjects, PrefixBytes \in 0..MaxDrop, SuffixBytes \in 0..MaxDrop :
             BufferTryFrom(d, PrefixBytes, SuffixBytes)

\* buf = buf.into_subregion::<front, back>(); `last` keeps the two counts and
\* the buffer the call was made on
IntoSubregion(front, back) ==
    /\ buf # NoBuf
    /\ LET r == into_subregion(buf, front, back)
       IN  /\ buf' = r.buf
           /\ last' = Ret("into_subregion", r.res, <<front, back>>, buf)
           /\ hist' = IF r.res = "Ok"
                      THEN [hist EXCEPT !.front = @ + front, !.back = @ + back]
                      ELSE hist
    /\ UNCHANGED <<blocks, roots, leaf>>

\* buf = buf.grow_region::<front, back>(), for counts the buffer's type has
GrowRegion(front, back) ==
    /\ buf # NoBuf
    /\ front <= available_prefix_bytes(buf)
    /\ back <= available_suffix_bytes(buf)
    /\ LET r == grow_region(buf, front, back)
       IN  /\ buf' = r.buf
           /\ last' = Ret("grow_region", r.res, <<front, back>>, <<>>)
           /\ hist' = IF r.res = "Ok"
                      THEN [hist EXCEPT !.front = @ - front, !.back = @ - back,
                                        !.only_sub = FALSE]
                      ELSE hist
    /\ UNCHANGED <<blocks, roots, leaf>>

\* serialize_leaf_node_optimized(buf.extract().clone(), n, &layout); `last`
\* keeps n and the Data that came back
SerializeLeaf(n) ==
    /\ buf # NoBuf
    /\ LET r == serialize_leaf_node_optimized(extract(buf), n, block_size_bytes)
       IN  last' = Ret("serialize_leaf_node_optimized", r.res, n, r.data)
    /\ UNCHANGED <<blocks, roots, leaf, buf, hist>>

BufferNext ==
    \/ \E front \in 0..MaxDrop, back \in 0..MaxDrop : IntoSubregion(front, back)
    \/ \E front \in 0..MaxDrop, back \in 0..MaxDrop : GrowRegion(front, back)
    \/ \E n \in 0..(MBL + 1) : SerializeLeaf(n)

BufferSpec == BufferInit /\ [][BufferNext]_vars

---------------------------------------------------------------------------
(* Loading a block of unknown contents (LoadSpec): the block store is      *)
(* external, so the bytes under an id need not have been written by this   *)
(* program.  The node store reads the depth byte and hands a depth-0 block *)
(* to DataLeafNode::new (the dispatch is from the spec, section 4.3).      *)

\* the bytes of a block with these header fields
block_bytes(format_version, depth, size, payload) ==
    write_header(Zeroes(HEADER_SIZE) \o payload, format_version, 0, depth, size)

\* the blocks the store may hold under an id: any header, and a payload that
\* is shorter than, as long as, or longer than the layout's; never empty,
\* which the caller of DataLeafNode::new has checked
LoadedBlocks ==
    {node_View(block_bytes(format_version, depth, size, payload)) :
        format_version \in {FORMAT_VERSION_HEADER, FORMAT_VERSION_HEADER + 1},
        depth \in {0, 1},
        size \in 0..(MBL + 1),
        payload \in ByteSeqs(1, MBL + 1)}

LoadInit ==
    /\ \E id \in CallerIds, block \in LoadedBlocks :
          blocks = [i \in Ids |-> IF i = id THEN block ELSE NoBlock]
    /\ roots = {}
    /\ leaf = NoLeaf
    /\ last = Ret("init", "Ok", 0, <<>>)
    /\ buf = NoBuf
    /\ hist = NoBuf

\* load the node with this id: a depth-0 block goes to DataLeafNode::new
LoadNode(id) ==
    /\ leaf = NoLeaf
    /\ Exists(blocks, id)
    /\ LET block == load(blocks, id)
           res == DataLeafNode_new(block, block_size_bytes)
       IN  IF block.depth # 0
           THEN /\ leaf' = NoLeaf
                /\ last' = Ret("load_inner", "Ok", id, <<>>)
           ELSE /\ leaf' = IF res = "ok" THEN LeafHandle(id, block) ELSE NoLeaf
                /\ last' = Ret("load_leaf", res, id, <<>>)
    /\ UNCHANGED <<blocks, roots, buf, hist>>

\* drop the leaf that was loaded
LoadedDrop ==
    /\ leaf # NoLeaf
    /\ blocks' = [blocks EXCEPT ![leaf.id] = leaf.block]
    /\ leaf' = NoLeaf
    /\ last' = Ret("drop", "Ok", leaf.id, <<>>)
    /\ UNCHANGED <<roots, buf, hist>>

LoadNext ==
    \/ \E id \in Ids : LoadNode(id)
    \/ LoadedDrop

LoadSpec == LoadInit /\ [][LoadNext]_vars

---------------------------------------------------------------------------
(* Shape predicates *)

\* every inner node below id has K children and every leaf is full
RECURSIVE IsFull(_, _)
IsFull(bs, id) ==
    /\ Exists(bs, id)
    /\ IF bs[id].depth = 0 THEN bs[id].size = MBL
       ELSE /\ Len(bs[id].children) = K
            /\ \A i \in 1..K :
                  /\ Exists(bs, bs[id].children[i])
                  /\ bs[bs[id].children[i]].depth = bs[id].depth - 1
                  /\ IsFull(bs, bs[id].children[i])

\* the left-max-data shape: leaves at one depth, everything off the
\* rightmost path full, the rightmost path possibly short
RECURSIVE IsLeftMaxData(_, _)
IsLeftMaxData(bs, id) ==
    /\ Exists(bs, id)
    /\ IF bs[id].depth = 0 THEN bs[id].size \in 0..MBL
       ELSE LET ch == bs[id].children
            IN  /\ Len(ch) \in 1..K
                /\ \A i \in 1..Len(ch) :
                      /\ Exists(bs, ch[i])
                      /\ bs[ch[i]].depth = bs[id].depth - 1
                /\ \A i \in 1..(Len(ch) - 1) : IsFull(bs, ch[i])
                /\ IsLeftMaxData(bs, ch[Len(ch)])

\* the rightmost leaf below id
RECURSIVE RightmostLeaf(_, _)
RightmostLeaf(bs, id) ==
    IF bs[id].depth = 0 THEN id ELSE RightmostLeaf(bs, LastChild(bs[id]))

\* id is referenced as a child by some inner node
IsChild(bs, id) ==
    \E p \in Ids :
        /\ Exists(bs, p)
        /\ bs[p].depth > 0
        /\ \E i \in 1..Len(bs[p].children) : bs[p].children[i] = id

\* a leaf block within its bounds, with a zero tail
LeafOk(block) ==
    /\ block.size \in 0..MBL
    /\ Len(block.data) = MBL
    /\ \A i \in 1..MBL : i > block.size => block.data[i] = 0

---------------------------------------------------------------------------
(* DataLeafNode::resize statement by statement *)

\* writing the size field before the dropped bytes are cleared
resize_steps_size_first(block, new_num_bytes) ==
    IF new_num_bytes < block.size THEN <<"size", "fill">> ELSE <<"size">>

\* the statements of resize after its assertion, in program order: the fill
\* of the newly unused region when the leaf shrinks, then the size write
resize_steps(block, new_num_bytes) ==
    IF new_num_bytes < block.size THEN <<"fill", "size">> ELSE <<"size">>

\* the bytes of newly_unused_data_region that fill(0) has not cleared yet
fill_pending(block, new_num_bytes, old_num_bytes) ==
    {i \in (new_num_bytes + 1)..old_num_bytes : block.data[i] # 0}

\* StepSpec: one leaf that is written and resized, the resize one memory
\* write at a time.  buf is the call frame of the resize: the block at entry,
\* new_num_bytes, old_num_bytes and the statements still to run.
Resizing == buf # NoBuf /\ buf.todo # <<>>

StepCreate(payload) == ~Resizing /\ LeafCreate(payload)

StepWrite(offset, src) == ~Resizing /\ LeafWrite(offset, src)

ResizeBegin(n) ==
    /\ leaf # NoLeaf
    /\ ~Resizing
    /\ IF resize_assertion(leaf.block, n)
       THEN /\ buf' = [start |-> leaf.block,
                       new_num_bytes |-> n,
                       old_num_bytes |-> leaf.block.size,
                       todo |-> resize_steps(leaf.block, n)]
            /\ last' = Ret("resize_begin", "Ok", n, data(leaf.block))
       ELSE /\ buf' = NoBuf
            /\ last' = Ret("resize_begin", "panic", n, data(leaf.block))
    /\ hist' = last
    /\ UNCHANGED <<blocks, roots, leaf>>

\* fill(0) clears the region byte by byte, in no fixed order
ResizeFill(i) ==
    /\ Resizing
    /\ Head(buf.todo) = "fill"
    /\ i \in fill_pending(leaf.block, buf.new_num_bytes, buf.old_num_bytes)
    /\ leaf' = [leaf EXCEPT !.block.data[i] = 0]
    /\ last' = Ret("resize_fill", "Ok", i, <<>>)
    /\ hist' = last
    /\ UNCHANGED <<blocks, roots, buf>>

\* the region is all zero: fill(0) returns
ResizeFillDone ==
    /\ Resizing
    /\ Head(buf.todo) = "fill"
    /\ fill_pending(leaf.block, buf.new_num_bytes, buf.old_num_bytes) = {}
    /\ buf' = [buf EXCEPT !.todo = Tail(@)]
    /\ last' = Ret("resize_fill", "Ok", 0, <<>>)
    /\ hist' = last
    /\ UNCHANGED <<blocks, roots, leaf>>

\* view.size_mut().write(new_num_bytes)
ResizeWriteSize ==
    /\ Resizing
    /\ Head(buf.todo) = "size"
    /\ leaf' = [leaf EXCEPT !.block.size = buf.new_num_bytes]
    /\ buf' = [buf EXCEPT !.todo = Tail(@)]
    /\ last' = Ret("resize_size", "Ok", buf.new_num_bytes, <<>>)
    /\ hist' = last
    /\ UNCHANGED <<blocks, roots>>

StepNext ==
    \/ \E payload \in ByteSeqs(0, MBL) : StepCreate(payload)
    \/ \E offset \in 0..MBL, src \in ByteSeqs(1, MBL) : StepWrite(offset, src)
    \/ \E n \in 0..(MBL + 1) : ResizeBegin(n)
    \/ \E i \in 1..MBL : ResizeFill(i)
    \/ ResizeFillDone
    \/ ResizeWriteSize

StepSpec == Init /\ [][StepNext]_vars

---------------------------------------------------------------------------
(* Block locks taken by tree operations *)

Procs == 1..NumProcs

Idle == [op |-> "idle", held |-> <<>>, want |-> 0]

\* the locks a process holds
Held(p) == {buf[p].held[k] : k \in 1..Len(buf[p].held)}

\* the children of an inner node, none for a leaf
ChildIds(bs, id) ==
    IF bs[id].depth = 0 THEN {}
    ELSE {bs[id].children[k] : k \in 1..Len(bs[id].children)}

\* taking the next lock in either direction: a child or the parent of the
\* innermost block held
next_locks_any_direction(bs, held) ==
    ChildIds(bs, held[Len(held)])
        \cup {id \in Ids : Exists(bs, id) /\ held[Len(held)] \in ChildIds(bs, id)}

\* the blocks an operation may lock next while it holds `held`: a child of
\* the innermost block it holds
next_locks(bs, held) == ChildIds(bs, held[Len(held)])

\* LockSpec: NumProcs tree operations run at once on one tree; each starts at
\* its root (remove_tree_by_id at any block id), takes block locks on its way
\* down and gives them back on its way up.  buf[p] is the operation of
\* process p, the locks it holds in the order it took them, and the lock it
\* waits for.  The tree is resized between operations.
LockInit ==
    /\ LET r == create_tree([id \in Ids |-> NoBlock])
       IN  /\ blocks = r.bs
           /\ roots = {r.id}
    /\ leaf = NoLeaf
    /\ last = Ret("create_tree", "Some", 0, <<>>)
    /\ buf = [p \in Procs |-> Idle]
    /\ hist = NoBuf

LockResize(n) ==
    /\ \A p \in Procs : buf[p] = Idle
    /\ TreeResize(n)

LockBegin(p, op, id) ==
    /\ buf[p] = Idle
    /\ Exists(blocks, id)
    /\ op # "remove_tree_by_id" => id \in roots
    /\ buf' = [buf EXCEPT ![p] = [op |-> op, held |-> <<>>, want |-> id]]
    /\ last' = Ret("begin", "Ok", id, <<>>)
    /\ UNCHANGED <<blocks, roots, leaf, hist>>

LockAcquire(p) ==
    /\ buf[p].want # 0
    /\ \A q \in Procs \ {p} : buf[p].want \notin Held(q)
    /\ buf' = [buf EXCEPT ![p].held = Append(@, buf[p].want), ![p].want = 0]
    /\ last' = Ret("lock", "Ok", buf[p].want, <<>>)
    /\ UNCHANGED <<blocks, roots, leaf, hist>>

LockDescend(p, id) ==
    /\ buf[p].op # "idle"
    /\ buf[p].want = 0
    /\ buf[p].held # <<>>
    /\ id \in next_locks(blocks, buf[p].held)
    /\ buf' = [buf EXCEPT ![p].want = id]
    /\ last' = Ret("descend", "Ok", id, <<>>)
    /\ UNCHANGED <<blocks, roots, leaf, hist>>

LockRelease(p) ==
    /\ buf[p].want = 0
    /\ Len(buf[p].held) > 1
    /\ buf' = [buf EXCEPT ![p].held = SubSeq(@, 1, Len(@) - 1)]
    /\ last' = Ret("unlock", "Ok", buf[p].held[Len(buf[p].held)], <<>>)
    /\ UNCHANGED <<blocks, roots, leaf, hist>>

LockFinish(p) ==
    /\ buf[p].op # "idle"
    /\ buf[p].want = 0
    /\ buf' = [buf EXCEPT ![p] = Idle]
    /\ last' = Ret("finish", "Ok", 0, <<>>)
    /\ UNCHANGED <<blocks, roots, leaf, hist>>

LockNext ==
    \/ \E n \in 0..MaxBytes : LockResize(n)
    \/ \E p \in Procs, id \in Ids,
          op \in {"write_bytes", "resize_num_bytes", "remove_tree_by_id"} :
          LockBegin(p, op, id)
    \/ \E p \in Procs : LockAcquire(p)
    \/ \E p \in Procs, id \in Ids : LockDescend(p, id)
    \/ \E p \in Procs : LockRelease(p)
    \/ \E p \in Procs : LockFinish(p)

LockSpec == LockInit /\ [][LockNext]_vars

---------------------------------------------------------------------------
(* Two remove_tree_by_id calls at once *)

\* the root id that both calls are given
RmRoot == create_tree([id \in Ids |-> NoBlock]).id

RmIdle == [pc |-> "idle", lock |-> 0, todo |-> <<>>, res |-> "none",
           concurrent |-> FALSE, removed |-> 0]

\* DataTree::remove visits the nodes in post-order; a child that is gone is
\* visited too, and found missing then
RECURSIVE post_order(_, _)
RECURSIVE post_order_all(_, _)
post_order(bs, id) ==
    IF ~Exists(bs, id) THEN <<id>>
    ELSE IF bs[id].depth = 0 THEN <<id>>
    ELSE post_order_all(bs, bs[id].children) \o <<id>>
post_order_all(bs, ids) ==
    IF ids = <<>> THEN <<>>
    ELSE post_order(bs, Head(ids)) \o post_order_all(bs, Tail(ids))

\* a block store whose load never waits for a block that is in use
block_locked_never(locks, p, id) == FALSE

\* the block is loaded by another operation, which holds its lock until it
\* drops or removes the block; locks[q] is the block that q holds, or 0
block_locked(locks, p, id) ==
    \E q \in DOMAIN locks : q # p /\ locks[q] = id

\* RemoveSpec: a tree is created and resized; then NumProcs calls of
\* remove_tree_by_id(RmRoot) run, each a load_tree and, if that finds the
\* tree, a DataTree::remove that removes one block per step.  buf[p] is the
\* call of process p.
RmInit ==
    /\ LET r == create_tree([id \in Ids |-> NoBlock])
       IN  /\ blocks = r.bs
           /\ roots = {r.id}
    /\ leaf = NoLeaf
    /\ last = Ret("create_tree", "Some", 0, <<>>)
    /\ buf = [p \in Procs |-> RmIdle]
    /\ hist = NoBuf

RmResize(n) ==
    /\ \A p \in Procs : buf[p] = RmIdle
    /\ TreeResize(n)

\* remove_tree_by_id(RmRoot) is called
RmCall(p) ==
    /\ buf[p].pc = "idle"
    /\ buf' = [buf EXCEPT ![p].pc = "load",
                          ![p].concurrent =
                              /\ Exists(blocks, RmRoot)
                              /\ \E q \in Procs \ {p} :
                                    buf[q].pc \in {"load", "remove"}]
    /\ last' = Ret("remove_tree_by_id", "called", RmRoot, <<>>)
    /\ UNCHANGED <<blocks, roots, leaf, hist>>

\* self.load_tree(root_node_id).await?
RmLoad(p) ==
    /\ buf[p].pc = "load"
    /\ ~block_locked([q \in Procs |-> buf[q].lock], p, RmRoot)
    /\ IF load_tree(blocks, RmRoot) # 0
       THEN /\ buf' = [buf EXCEPT ![p].pc = "remove",
                                  ![p].lock = RmRoot,
                                  ![p].todo = post_order(blocks, RmRoot)]
            /\ last' = Ret("load_tree", "Some", RmRoot, <<>>)
       ELSE /\ buf' = [buf EXCEPT ![p].pc = "done",
                                  ![p].res = "NotRemovedBecauseItDoesntExist"]
            /\ last' = Ret("load_tree", "None", RmRoot, <<>>)
    /\ UNCHANGED <<blocks, roots, leaf, hist>>

\* DataTree::remove(tree).await?: the next node; a node that is gone is an
\* error, the root is the last node and ends the call
RmStep(p) ==
    /\ buf[p].pc = "remove"
    /\ LET id == Head(buf[p].todo)
           rest == Tail(buf[p].todo)
       IN  IF ~Exists(blocks, id)
           THEN /\ buf' = [buf EXCEPT ![p].pc = "done", ![p].lock = 0,
                                      ![p].res = "Err"]
                /\ last' = Ret("remove", "Err", id, <<>>)
                /\ UNCHANGED <<blocks, roots>>
           ELSE /\ blocks' = [blocks EXCEPT ![id] = NoBlock]
                /\ roots' = roots \ {id}
                /\ last' = Ret("remove", "Ok", id, <<>>)
                /\ buf' = IF rest = <<>>
                          THEN [buf EXCEPT ![p].pc = "done", ![p].lock = 0,
                                           ![p].todo = rest,
                                           ![p].removed = @ + 1,
                                           ![p].res = "SuccessfullyRemoved"]
                          ELSE [buf EXCEPT ![p].todo = rest,
                                           ![p].removed = @ + 1]
    /\ UNCHANGED <<leaf, hist>>

RmNext ==
    \/ \E n \in 0..MaxBytes : RmResize(n)
    \/ \E p \in Procs : RmCall(p)
    \/ \E p \in Procs : RmLoad(p)
    \/ \E p \in Procs : RmStep(p)

RemoveSpec == RmInit /\ [][RmNext]_vars

---------------------------------------------------------------------------
(* OuterConfig: the outer layer of the config file *)

\* "cryfs.config;1;scrypt" as ASCII bytes
HEADER ==
    <<99, 114, 121, 102, 115, 46, 99, 111, 110, 102, 105, 103, 59, 49, 59,
      115, 99, 114, 121, 112, 116>>

\* a u64 is only ever compared with the bytes left in the file, so reading
\* saturates at U64Sat, above every file length of the model
U64Sat == 65536

\* v shifted right by k bytes
RECURSIVE ShiftBytes(_, _)
ShiftBytes(v, k) == IF k = 0 THEN v ELSE ShiftBytes(v \div 256, k - 1)

\* little-endian u64
u64_le_bytes(v) == [i \in 1..8 |-> ShiftBytes(v, i - 1) % 256]
RECURSIVE u64_le_read_from(_, _)
u64_le_read_from(b, i) ==
    IF i > 8 THEN 0
    ELSE Min(U64Sat, b[i] + 256 * u64_le_read_from(b, i + 1))
u64_le_read(b) == u64_le_read_from(b, 1)

\* position of the first NUL byte, 0 when there is none
FirstNul(b) ==
    IF \E i \in 1..Len(b) : b[i] = 0
    THEN CHOOSE i \in 1..Len(b) : b[i] = 0 /\ \A j \in 1..(i - 1) : b[j] # 0
    ELSE 0

\* String::try_from(NullString): the bytes are well-formed UTF-8
RECURSIVE utf8_valid(_)
utf8_valid(b) ==
    IF b = <<>> THEN TRUE
    ELSE LET c == b[1]
             n == Len(b)
             cont(x) == x \in 128..191
         IN  IF c < 128 THEN utf8_valid(Tail(b))
             ELSE IF c \in 194..223
             THEN n >= 2 /\ cont(b[2]) /\ utf8_valid(SubSeq(b, 3, n))
             ELSE IF c \in 224..239
             THEN /\ n >= 3
                  /\ b[2] \in (IF c = 224 THEN 160..191
                               ELSE IF c = 237 THEN 128..159 ELSE 128..191)
                  /\ cont(b[3])
                  /\ utf8_valid(SubSeq(b, 4, n))
             ELSE IF c \in 240..244
             THEN /\ n >= 4
                  /\ b[2] \in (IF c = 240 THEN 144..191
                               ELSE IF c = 244 THEN 128..143 ELSE 128..191)
                  /\ cont(b[3])
                  /\ cont(b[4])
                  /\ utf8_valid(SubSeq(b, 5, n))
             ELSE FALSE

\* OuterConfigLayout::write: header, NUL, length, kdf parameters, inner config
OuterConfigLayout_write(layout) ==
    layout.header \o <<0>> \o u64_le_bytes(layout.kdf_parameters_num_bytes)
        \o layout.kdf_parameters_serialized \o layout.encrypted_inner_config

\* OuterConfigLayout::read: the header up to the first NUL, eight bytes of
\* length, that many bytes of kdf parameters, the rest up to the end of the
\* file; fails when the file ends before any of the first three is complete
OuterConfigLayout_read(source) ==
    LET z == FirstNul(source)
        after_header == SubSeq(source, z + 1, Len(source))
        count == u64_le_read(SubSeq(after_header, 1, 8))
        after_count == SubSeq(after_header, 9, Len(after_header))
    IN  IF z = 0 \/ Len(after_header) < 8 THEN [ok |-> FALSE]
        ELSE IF count > Len(after_count) THEN [ok |-> FALSE]
        ELSE [ok |-> TRUE,
              header |-> SubSeq(source, 1, z - 1),
              kdf_parameters_num_bytes |-> count,
              kdf_parameters_serialized |-> SubSeq(after_count, 1, count),
              encrypted_inner_config |->
                  SubSeq(after_count, count + 1, Len(after_count))]

OuterConfig(kdf, enc) ==
    [kdf_parameters_serialized |-> kdf, encrypted_inner_config |-> enc]

\* a serialize that writes the length most significant byte first
OuterConfig_serialize_big_endian(self) ==
    LET kdf_len == Len(self.kdf_parameters_serialized)
    IN  HEADER \o <<0>> \o [i \in 1..8 |-> ShiftBytes(kdf_len, 8 - i) % 256]
            \o self.kdf_parameters_serialized \o self.encrypted_inner_config

\* OuterConfig::serialize: the bytes written to dest
OuterConfig_serialize(self) ==
    OuterConfigLayout_write(
        [header |-> HEADER,
         kdf_parameters_num_bytes |-> Len(self.kdf_parameters_serialized),
         kdf_parameters_serialized |-> self.kdf_parameters_serialized,
         encrypted_inner_config |-> self.encrypted_inner_config])

\* a deserialize that accepts every header that is a string
OuterConfig_deserialize_any_header(source) ==
    LET layout == OuterConfigLayout_read(source)
    IN  IF ~layout.ok THEN [res |-> "ReadError", cfg |-> NoBuf]
        ELSE IF ~utf8_valid(layout.header)
        THEN [res |-> "NotUtf8", cfg |-> NoBuf]
        ELSE [res |-> "Ok",
              cfg |-> OuterConfig(layout.kdf_parameters_serialized,
                                  layout.encrypted_inner_config)]

\* OuterConfig::deserialize; returns [res, cfg]
OuterConfig_deserialize(source) ==
    LET layout == OuterConfigLayout_read(source)
    IN  IF ~layout.ok THEN [res |-> "ReadError", cfg |-> NoBuf]
        ELSE IF ~utf8_valid(layout.header)
        THEN [res |-> "NotUtf8", cfg |-> NoBuf]
        ELSE IF layout.header # HEADER
        THEN [res |-> "InvalidHeader", cfg |-> NoBuf]
        ELSE IF layout.kdf_parameters_num_bytes
                    # Len(layout.kdf_parameters_serialized)
        THEN [res |-> "panic", cfg |-> NoBuf]
        ELSE [res |-> "Ok",
              cfg |-> OuterConfig(layout.kdf_parameters_serialized,
                                  layout.encrypted_inner_config)]

kdf_parameters(self) == self.kdf_parameters_serialized

\* OuterSpec: a config is serialized to a file, the file is damaged in up to
\* MaxTamper places (a byte replaced or the end cut off) and deserialized.
\* buf is the file with the config it was written from, hist the OuterConfig
\* that deserialize returned.
\* byte strings of each length up to MaxPayloadLen, NUL bytes before a last 7
Payloads == {[i \in 1..n |-> IF i = n THEN 7 ELSE 0] : n \in 0..MaxPayloadLen}
\* NUL, a UTF-8 lead byte, a UTF-8 continuation byte
TamperBytes == {0, 195, 169}

OuterSerialize(kdf, enc) ==
    /\ buf = NoBuf
    /\ buf' = [bytes |-> OuterConfig_serialize(OuterConfig(kdf, enc)),
               cfg |-> OuterConfig(kdf, enc),
               tampers |-> 0]
    /\ last' = Ret("serialize", "Ok", 0, <<>>)
    /\ hist' = NoBuf
    /\ UNCHANGED <<blocks, roots, leaf>>

OuterReplaceByte(i, v) ==
    /\ buf # NoBuf
    /\ buf.tampers < MaxTamper
    /\ i \in 1..Len(buf.bytes)
    /\ buf.bytes[i] # v
    /\ buf' = [buf EXCEPT !.bytes[i] = v, !.tampers = @ + 1]
    /\ last' = Ret("replace", "Ok", 0, <<>>)
    /\ hist' = NoBuf
    /\ UNCHANGED <<blocks, roots, leaf>>

OuterTruncate(n) ==
    /\ buf # NoBuf
    /\ buf.tampers < MaxTamper
    /\ n < Len(buf.bytes)
    /\ buf' = [buf EXCEPT !.bytes = SubSeq(@, 1, n), !.tampers = @ + 1]
    /\ last' = Ret("truncate", "Ok", 0, <<>>)
    /\ hist' = NoBuf
    /\ UNCHANGED <<blocks, roots, leaf>>

OuterDeserialize ==
    /\ buf # NoBuf
    /\ LET r == OuterConfig_deserialize(buf.bytes)
       IN  /\ last' = Ret("deserialize", r.res, 0, buf.bytes)
           /\ hist' = r.cfg
    /\ UNCHANGED <<blocks, roots, leaf, buf>>

MaxFileLen == Len(HEADER) + 9 + 2 * MaxPayloadLen

OuterNext ==
    \/ \E kdf \in Payloads, enc \in Payloads : OuterSerialize(kdf, enc)
    \/ \E i \in 1..MaxFileLen, v \in TamperBytes : OuterReplaceByte(i, v)
    \/ \E n \in 0..MaxFileLen : OuterTruncate(n)
    \/ OuterDeserialize

OuterSpec == Init /\ [][OuterNext]_vars

---------------------------------------------------------------------------
(* Claims *)

\* C1 (Spec): after any sequence of create_tree, resize_num_bytes and
\* write_bytes calls every tree has the left-max-data shape: all leaves at the
\* same depth, every subtree off the rightmost path full, only the rightmost
\* path short.
C1_LeftMaxData == \A r \in roots : IsLeftMaxData(blocks, r)

C1_Witness ==
    /\ last.op \in {"resize_num_bytes", "write_bytes"}
    /\ \E r \in roots :
          /\ blocks[r].depth = 2
          /\ Len(blocks[r].children) = 2
          /\ blocks[RightmostLeaf(blocks, r)].size < MBL

\* C2 (LeafSpec): every leaf, in memory or in the store, reached by
\* create_new_leaf_node, resize, writes through data_mut, drop and reload has
\* 0 <= size <= max_bytes_per_leaf and only zero bytes at [size, max_bytes_per_leaf).
C2_LeafInvariant ==
    /\ leaf # NoLeaf => LeafOk(leaf.block)
    /\ \A id \in Ids : Exists(blocks, id) => LeafOk(blocks[id])

C2_Witness ==
    /\ last.op = "resize"
    /\ leaf # NoLeaf
    /\ leaf.block.size = 1
    /\ leaf.block.data[1] # 0

\* C3 (TreeSpec): after resize_num_bytes(n) has completed, num_bytes() is n,
\* whether the tree grew or shrank and also for multiples of max_bytes_per_leaf.
C3_ResizeSetsNumBytes ==
    last.op = "resize_num_bytes" => tree_num_bytes(blocks, TheTree) = last.arg

C3_Witness ==
    /\ last.op = "resize_num_bytes"
    /\ last.arg = 2 * MBL
    /\ tree_num_bytes(blocks, TheTree) = 2 * MBL
    /\ blocks[TheTree].depth = 1

\* C4 (TreeSpec): write_bytes(data, offset) with offset + data.len() <=
\* num_bytes() followed by read_bytes(offset, buf) of the same length yields
\* data; the size and every byte outside the written range are unchanged.
C4_WriteReadRoundTrip ==
    [][(/\ last'.op = "write_bytes"
        /\ last'.arg + Len(last'.src) <= tree_num_bytes(blocks, TheTree))
       => LET off == last'.arg
              len == Len(last'.src)
              n == tree_num_bytes(blocks, TheTree)
          IN  /\ tree_num_bytes(blocks', TheTree) = n
              /\ read_bytes(blocks', TheTree, off, len) = last'.src
              /\ \A p \in 0..(n - 1) :
                    (p < off \/ p >= off + len) =>
                        read_bytes(blocks', TheTree, p, 1)
                            = read_bytes(blocks, TheTree, p, 1)]_vars

C4_Witness ==
    /\ last.op = "write_bytes"
    /\ last.arg = 1
    /\ last.src = <<1, 1>>
    /\ tree_num_bytes(blocks, TheTree) = MaxBytes
    /\ tree_data(blocks, TheTree)[1] = 0
    /\ read_bytes(blocks, TheTree, 1, 2) = <<1, 1>>

\* C5 (Spec): the root id of a tree never changes under resize_num_bytes or
\* write_bytes, also when the depth changes: every root id handed out still
\* loads as a tree with that root id and is the child of no node.
C5_RootIdPreserved ==
    \A r \in roots : load_tree(blocks, r) = r /\ ~IsChild(blocks, r)

C5_Witness ==
    /\ last.op = "resize_num_bytes"
    /\ \E r \in roots :
          /\ blocks[r].depth = 2
          /\ load_tree(blocks, r) = r
          /\ tree_num_bytes(blocks, r) = MaxBytes

\* C6 (Spec): remove_tree_by_id of an existing tree returns
\* SuccessfullyRemoved, removes every node of the tree, so that the node count
\* of the store drops by the tree's node count, and load_tree of the id then
\* returns None.
C6_RemoveExistingTree ==
    [][(last'.op = "remove_tree_by_id" /\ roots' # roots)
       => LET id == CHOOSE r \in roots \ roots' : TRUE
          IN  /\ last'.res = "SuccessfullyRemoved"
              /\ \A b \in all_blocks(blocks, id) : ~Exists(blocks', b)
              /\ Cardinality(all_blocks(blocks, id)) = tree_num_nodes(blocks, id)
              /\ num_nodes(blocks') = num_nodes(blocks) - tree_num_nodes(blocks, id)
              /\ load_tree(blocks', id) = 0]_vars

C6_Witness ==
    /\ last.op = "remove_tree_by_id"
    /\ last.res = "SuccessfullyRemoved"
    /\ roots = {}
    /\ num_nodes(blocks) = 0

\* C7 (Spec): remove_tree_by_id leaves every other tree of the store as it
\* was: the same nodes with the same contents, the same size, the same bytes.
C7_RemoveKeepsOtherTrees ==
    [][last'.op = "remove_tree_by_id"
       => \A r \in roots' :
             /\ all_blocks(blocks', r) = all_blocks(blocks, r)
             /\ \A b \in all_blocks(blocks, r) : blocks'[b] = blocks[b]
             /\ tree_num_bytes(blocks', r) = tree_num_bytes(blocks, r)
             /\ tree_data(blocks', r) = tree_data(blocks, r)]_vars

C7_Witness ==
    /\ last.op = "remove_tree_by_id"
    /\ last.res = "SuccessfullyRemoved"
    /\ \E r \in roots :
          /\ blocks[r].depth = 1
          /\ tree_data(blocks, r) = <<1, 1, 1>>

\* C8 (Spec): remove_tree_by_id of an id without a block returns
\* NotRemovedBecauseItDoesntExist and leaves the store unchanged, in an empty
\* store and in one holding other trees.
C8_RemoveMissingTree ==
    [][\A id \in Ids :
          (/\ last'.op = "remove_tree_by_id"
           /\ ~Exists(blocks, id)
           /\ RemoveTreeById(id))
          => /\ last'.res = "NotRemovedBecauseItDoesntExist"
             /\ blocks' = blocks
             /\ roots' = roots]_vars

C8_Witness ==
    /\ last.op = "remove_tree_by_id"
    /\ last.res = "NotRemovedBecauseItDoesntExist"
    /\ roots # {}
    /\ num_nodes(blocks) > 1

\* C9 (Spec): try_create_tree(id) returns a tree with root id id when no
\* block has that id, and None when one has; in the None case nothing in the
\* store changes, so the tree at id still loads with its contents.
C9_TryCreateTree ==
    [][\A id \in CallerIds :
          (last'.op = "try_create_tree" /\ TryCreateTree(id))
          => IF Exists(blocks, id)
             THEN /\ last'.res = "None"
                  /\ blocks' = blocks
                  /\ roots' = roots
                  /\ load_tree(blocks', id) = id
             ELSE /\ last'.res = "Some"
                  /\ roots' = roots \cup {id}
                  /\ load_tree(blocks', id) = id]_vars

C9_Witness ==
    /\ last.op = "try_create_tree"
    /\ last.res = "None"
    /\ \E r \in roots \cap CallerIds : tree_num_bytes(blocks, r) > 0

\* C10 (Spec): the tree create_tree or a successful try_create_tree returns
\* is one node, a leaf of size 0 (num_nodes() = 1, num_bytes() = 0, the block
\* at the root id loads as a leaf with num_bytes() = 0), and the store holds
\* exactly one block more than before.
C10_NewTreeIsOneEmptyLeaf ==
    [][(last'.op \in {"create_tree", "try_create_tree"} /\ last'.res = "Some")
       => \E id \in roots' \ roots :
             /\ roots' = roots \cup {id}
             /\ ~Exists(blocks, id)
             /\ tree_num_nodes(blocks', id) = 1
             /\ tree_num_bytes(blocks', id) = 0
             /\ DataLeafNode_new(load(blocks', id), block_size_bytes) = "ok"
             /\ num_bytes(load(blocks', id)) = 0
             /\ num_nodes(blocks') = num_nodes(blocks) + 1
             /\ \A b \in Ids \ {id} : blocks'[b] = blocks[b]]_vars

C10_Witness ==
    /\ last.op = "create_tree"
    /\ Cardinality(roots) = 2
    /\ \E r \in roots : tree_num_bytes(blocks, r) = 0 /\ blocks[r].depth = 0
    /\ \E r \in roots : blocks[r].depth = 1

\* C11 (Spec): load_tree(id) returns Some(tree) with root_node_id() = id
\* exactly when a block with that id is in the store, None when the id has no
\* block, and load_tree leaves the store as it was.
C11_LoadTree ==
    [][\A id \in Ids : LoadTree(id) =>
          /\ Exists(blocks, id) =>
                load_tree(blocks, id) = id /\ last'.res = "Some"
          /\ ~Exists(blocks, id) =>
                load_tree(blocks, id) = 0 /\ last'.res = "None"
          /\ blocks' = blocks
          /\ roots' = roots]_vars

C11_Witness ==
    /\ last.op = "load_tree"
    /\ last.res = "Some"
    /\ \E r \in roots : blocks[r].depth = 1
    /\ \E id \in Ids : ~Exists(blocks, id)

\* C12 (LeafSpec): for a leaf holding data d of size s and a <= b <= s,
\* resize(a) followed by resize(b) leaves data()[0..a) = d[0..a) and
\* data()[a..b) all zero: the bytes dropped in between do not come back.
C12_ShrinkThenGrowRevealsZeroes ==
    ( /\ hist # NoBuf
      /\ hist.op = "resize" /\ hist.res = "Ok"
      /\ last.op = "resize" /\ last.res = "Ok"
      /\ hist.arg <= last.arg
      /\ last.arg <= Len(hist.src) )
    => LET d == hist.src
           a == hist.arg
           b == last.arg
       IN  /\ Len(data(leaf.block)) = b
           /\ \A i \in 1..a : data(leaf.block)[i] = d[i]
           /\ \A i \in (a + 1)..b : data(leaf.block)[i] = 0

C12_Witness ==
    /\ hist # NoBuf
    /\ hist.op = "resize" /\ hist.res = "Ok"
    /\ hist.src = <<1, 1>> /\ hist.arg = 1
    /\ last.op = "resize" /\ last.res = "Ok" /\ last.arg = 2
    /\ data(leaf.block) = <<1, 0>>

\* C13 (LeafSpec): a leaf resize(n) with n <= max_bytes_per_leaf keeps the
\* payload bytes [0, min(old_size, n)) as they were; when it grows the leaf
\* the bytes data()[old_size..n) are zero and resize has not written the
\* payload.
C13_ResizePreservesPrefix ==
    [][(last'.op = "resize" /\ last'.res = "Ok") =>
          LET old_size == num_bytes(leaf.block)
              n == last'.arg
          IN  /\ n <= max_bytes_per_leaf(leaf.block)
              /\ \A i \in 1..Min(old_size, n) :
                    data(leaf'.block)[i] = data(leaf.block)[i]
              /\ n > old_size =>
                    /\ \A i \in (old_size + 1)..n : data(leaf'.block)[i] = 0
                    /\ leaf'.block.data = leaf.block.data]_vars

C13_Witness ==
    /\ last.op = "resize" /\ last.res = "Ok"
    /\ last.src = <<1>> /\ last.arg = 2
    /\ leaf # NoLeaf
    /\ data(leaf.block) = <<1, 0>>

\* C14 (LeafSpec): for every n in 0..max_bytes_per_leaf, after resize(n)
\* num_bytes() = n and data().len() = n, and both still hold after the leaf
\* is dropped and loaded again by its block id.
C14_ResizeHasNewSize ==
    /\ (last.op = "resize" /\ last.res = "Ok") =>
          /\ num_bytes(leaf.block) = last.arg
          /\ Len(data(leaf.block)) = last.arg
    /\ ( /\ hist # NoBuf
         /\ hist.op = "resize" /\ hist.res = "Ok"
         /\ last.op = "drop" ) =>
          /\ Len(last.src) = hist.arg
          /\ num_bytes(load(blocks, last.arg)) = hist.arg
    /\ ( /\ hist # NoBuf
         /\ hist.op = "drop"
         /\ last.op = "load" /\ last.arg = hist.arg ) =>
          /\ num_bytes(leaf.block) = Len(hist.src)
          /\ data(leaf.block) = hist.src

C14_Witness ==
    /\ hist # NoBuf
    /\ hist.op = "drop" /\ Len(hist.src) = MBL /\ hist.src[MBL] # 0
    /\ last.op = "load" /\ last.arg = hist.arg
    /\ num_bytes(leaf.block) = MBL

\* C15 (LeafSpec): leaf resize(new_num_bytes) with new_num_bytes >
\* max_bytes_per_leaf fails its assertion, and neither the size field nor the
\* payload of the block has been modified.
C15_ResizeTooLargeFails ==
    [][(last'.op = "resize" /\ last'.arg > max_bytes_per_leaf(leaf.block)) =>
          /\ last'.res = "panic"
          /\ leaf'.block = leaf.block
          /\ blocks' = blocks]_vars

C15_Witness ==
    /\ last.op = "resize" /\ last.res = "panic"
    /\ last.arg = MBL + 1
    /\ leaf # NoLeaf
    /\ num_bytes(leaf.block) = 1 /\ leaf.block.data[1] # 0

\* C16 (BufferSpec): for a payload p of length max_bytes_per_leaf with at
\* least HEADER_SIZE bytes of prefix reserve and s <= max_bytes_per_leaf,
\* serialize_leaf_node_optimized(p, s, layout) gives a block of
\* block_size_bytes bytes whose header reads format_version =
\* FORMAT_VERSION_HEADER, unused = 0, depth = 0, size = s and whose payload
\* region is p; parsing it gives a leaf of size s with data p[..s].
C16_SerializeRoundTrip ==
    ( /\ last.op = "serialize_leaf_node_optimized"
      /\ GrowableData_len(buf) = layout_max_bytes_per_leaf(block_size_bytes)
      /\ Data_available_prefix_bytes(extract(buf)) >= HEADER_SIZE
      /\ last.arg <= layout_max_bytes_per_leaf(block_size_bytes) )
    => /\ last.res = "Ok"
       /\ LET p == as_ref(buf)
              s == last.arg
              block == Data_as_ref(last.src)
              view == node_View(block)
          IN  /\ Len(block) = block_size_bytes
              /\ view.format_version = FORMAT_VERSION_HEADER
              /\ view.unused = 0
              /\ view.depth = 0
              /\ view.size = s
              /\ view.data = p
              /\ DataLeafNode_new(view, block_size_bytes) = "ok"
              /\ num_bytes(view) = s
              /\ data(view) = SubSeq(p, 1, s)

C16_Witness ==
    /\ last.op = "serialize_leaf_node_optimized"
    /\ last.res = "Ok"
    /\ last.arg = 1
    /\ as_ref(buf) = <<9, 10>>
    /\ node_View(Data_as_ref(last.src)).data = <<9, 10>>

\* C17 (BufferSpec): serialize_leaf_node_optimized never reallocates: it
\* grows the buffer forward by exactly HEADER_SIZE bytes out of the prefix
\* reserve; and it fails with an assertion, producing no block, whenever the
\* payload length is not max_bytes_per_leaf, num_bytes > max_bytes_per_leaf
\* or the prefix reserve is smaller than HEADER_SIZE.
C17_SerializeNoReallocation ==
    last.op = "serialize_leaf_node_optimized" =>
        LET d == extract(buf)
            bad == \/ Data_len(d) # layout_max_bytes_per_leaf(block_size_bytes)
                   \/ last.arg > layout_max_bytes_per_leaf(block_size_bytes)
                   \/ Data_available_prefix_bytes(d) < HEADER_SIZE
        IN  /\ bad <=> last.res = "panic"
            /\ last.res = "panic" => last.src = NoBuf
            /\ last.res = "Ok" =>
                  /\ Len(last.src.storage) = Len(d.storage)
                  /\ Data_len(last.src) = Data_len(d) + HEADER_SIZE
                  /\ Data_available_prefix_bytes(last.src)
                        = Data_available_prefix_bytes(d) - HEADER_SIZE
                  /\ Data_available_suffix_bytes(last.src)
                        = Data_available_suffix_bytes(d)
                  /\ \A i \in 1..Len(d.storage) :
                        (i <= last.src.begin \/ i > last.src.begin + HEADER_SIZE)
                            => last.src.storage[i] = d.storage[i]

C17_Witness ==
    /\ last.op = "serialize_leaf_node_optimized"
    /\ last.res = "panic"
    /\ last.arg <= MBL
    /\ GrowableData_len(buf) = MBL
    /\ Data_available_prefix_bytes(extract(buf)) = HEADER_SIZE - 1

\* C18 (LoadSpec): constructing a leaf from a loaded block whose
\* format_version is not FORMAT_VERSION_HEADER, or whose size field exceeds
\* max_bytes_per_leaf, ends in an error result: no leaf is returned and
\* nothing panics.  A block with the current format_version, depth 0 and
\* size <= max_bytes_per_leaf is accepted.
C18_LeafDeserialization ==
    last.op = "load_leaf" =>
        LET block == load(blocks, last.arg)
        IN  /\ last.res # "panic"
            /\ ( \/ block.format_version # FORMAT_VERSION_HEADER
                 \/ block.size > layout_max_bytes_per_leaf(block_size_bytes) )
               => last.res = "err" /\ leaf = NoLeaf
            /\ ( /\ block.format_version = FORMAT_VERSION_HEADER
                 /\ block.depth = 0
                 /\ block.size <= layout_max_bytes_per_leaf(block_size_bytes) )
               => last.res = "ok" /\ leaf = LeafHandle(last.arg, block)

C18_Witness ==
    /\ last.op = "load_leaf"
    /\ last.res = "err"
    /\ leaf = NoLeaf
    /\ load(blocks, last.arg).format_version = FORMAT_VERSION_HEADER
    /\ load(blocks, last.arg).size = MBL + 1

\* C19 (BufferSpec): for a buffer made from a raw vector v, after any
\* sequence of into_subregion(f_i, b_i) calls the prefix reserve is the sum
\* of the f_i, the suffix reserve the sum of the b_i, and the visible bytes
\* are v without its first sum(f_i) and its last sum(b_i) bytes.
C19_NestedSubregions ==
    (buf # NoBuf /\ hist.only_sub) =>
        /\ available_prefix_bytes(buf) = hist.front
        /\ available_suffix_bytes(buf) = hist.back
        /\ Data_available_prefix_bytes(extract(buf)) = hist.front
        /\ Data_available_suffix_bytes(extract(buf)) = hist.back
        /\ as_ref(buf) = SubSeq(hist.raw, hist.front + 1, Len(hist.raw) - hist.back)

C19_Witness ==
    /\ buf # NoBuf
    /\ hist.only_sub
    /\ last.op = "into_subregion"
    /\ hist.front = MaxDrop + 1
    /\ hist.back = 1
    /\ GrowableData_len(buf) = 1

\* C20 (BufferSpec): into_subregion(drop_front, drop_back) fails with an
\* assertion when drop_front + drop_back > len of the visible region, and
\* succeeds, possibly with an empty region, when drop_front + drop_back <= len.
C20_SubregionAssertion ==
    [][last'.op = "into_subregion" =>
          LET front == last'.arg[1]
              back == last'.arg[2]
          IN  /\ front + back > GrowableData_len(buf) =>
                    last'.res = "panic" /\ buf' = NoBuf
              /\ front + back <= GrowableData_len(buf) =>
                    /\ last'.res = "Ok"
                    /\ buf' # NoBuf
                    /\ GrowableData_len(buf') =
                          GrowableData_len(buf) - front - back]_vars

C20_Witness ==
    /\ last.op = "into_subregion"
    /\ last.res = "Ok"
    /\ buf # NoBuf
    /\ GrowableData_len(buf) = 0
    /\ hist.front > 0 /\ hist.back > 0

\* C21 (BufferSpec): grow_region(add_front, add_back) re-expands the visible
\* region by add_front bytes at the front and add_back bytes at the back and
\* takes them off the prefix and suffix reserves, without reallocating; so
\* into_subregion(a, b) followed by grow_region(a, b) gives back the buffer
\* it started from: visible bytes, length and reserve counters.
C21_GrowRegion ==
    [][last'.op = "grow_region" =>
          LET front == last'.arg[1]
              back == last'.arg[2]
          IN  /\ last'.res = "Ok"
              /\ buf' # NoBuf
              /\ GrowableData_len(buf') = GrowableData_len(buf) + front + back
              /\ available_prefix_bytes(buf') = available_prefix_bytes(buf) - front
              /\ available_suffix_bytes(buf') = available_suffix_bytes(buf) - back
              /\ extract(buf').storage = extract(buf).storage
              /\ SubSeq(as_ref(buf'), front + 1, front + GrowableData_len(buf))
                    = as_ref(buf)
              /\ ( /\ last.op = "into_subregion" /\ last.res = "Ok"
                   /\ last.arg = <<front, back>> )
                 => /\ buf' = last.src
                    /\ as_ref(buf') = as_ref(last.src)]_vars

C21_Witness ==
    /\ last.op = "grow_region"
    /\ last.res = "Ok"
    /\ last.arg = <<3, 1>>
    /\ buf # NoBuf
    /\ available_prefix_bytes(buf) = 1
    /\ available_suffix_bytes(buf) = 0
    /\ GrowableData_len(buf) = 5

\* C22 (BufferSpec): in every state reached from from(raw) or a successful
\* try_from(data) by into_subregion and grow_region calls, the allocation is
\* available_prefix_bytes + len + available_suffix_bytes long and the
\* counters of the type do not exceed the reserves of the wrapped data (the
\* internal invariant check does not fail).
C22_BufferInvariant ==
    /\ buf # NoBuf =>
          /\ Len(extract(buf).storage) =
                available_prefix_bytes(buf) + GrowableData_len(buf)
                    + available_suffix_bytes(buf)
          /\ check_invariant(buf)
    /\ (last.op = "grow_region" \/ last.op = "into_subregion") =>
          (last.res = "panic" =>
              /\ last.op = "into_subregion"
              /\ last.arg[1] + last.arg[2] > GrowableData_len(last.src))

C22_Witness ==
    /\ last.op = "grow_region"
    /\ buf # NoBuf
    /\ ~hist.only_sub
    /\ available_prefix_bytes(buf) = 2
    /\ available_suffix_bytes(buf) = 3
    /\ GrowableData_len(buf) = 4



\* C23 (TreeSpec): resize_num_bytes(new) on a tree of size old keeps the bytes
\* [0, min(old, new)) and makes the bytes [old, new) read as zero, so a fresh
\* tree resized to n reads as n zero bytes; and growing the tree again after
\* the resize, to any size m, reads zero in [new, m): bytes cut off by a
\* shrink never come back.
C23_TreeResizePreservesContents ==
    last.op = "resize_num_bytes" =>
        LET old == last.src
            n == last.arg
            new == tree_data(blocks, TheTree)
            kept == Min(Len(old), n)
        IN  /\ new = SubSeq(old, 1, kept) \o Zeroes(n - kept)
            /\ \A m \in n..MaxBytes :
                  tree_data(resize_num_bytes(blocks, load_tree(blocks, TheTree), m),
                            TheTree)
                      = new \o Zeroes(m - n)

\* a shrink across a leaf boundary that cuts off stored non-zero bytes
C23_Witness ==
    /\ last.op = "resize_num_bytes"
    /\ Len(last.src) = MaxBytes
    /\ last.arg = 1
    /\ last.src[2] = 1
    /\ last.src[MaxBytes] = 1
    /\ tree_data(blocks, TheTree) = <<last.src[1]>>


\* C24 (TreeSpec): from every tree and for every n, resize_num_bytes(n) applied
\* to the result of resize_num_bytes(n) gives that result again, block for
\* block (size, contents, shape, set of nodes); a resize to the current
\* num_bytes() changes no block, also when the shrinking or the growing
\* protocol is run with the current size; and after a resize step to the size
\* the tree had, the tree reads as before.
C24_ResizeIdempotent ==
    roots # {} =>
        LET r == TheTree
            cur == tree_num_bytes(blocks, r)
            L_cur == Max(1, CeilDiv(cur, MBL))
            tail_cur == cur - (L_cur - 1) * MBL
        IN  /\ \A n \in 0..MaxBytes :
                  LET once == resize_num_bytes(blocks, r, n)
                  IN  resize_num_bytes(once, r, n) = once
            /\ resize_num_bytes(blocks, r, cur) = blocks
            /\ resize_shrink(blocks, r, L_cur, tail_cur, blocks[r].depth) = blocks
            /\ resize_grow(blocks, r, L_cur, tail_cur, blocks[r].depth) = blocks
            /\ (last.op = "resize_num_bytes" /\ last.arg = Len(last.src))
                   => tree_data(blocks, r) = last.src

\* a second resize to the size the tree already has, on a tree of depth two
\* with stored bytes
C24_Witness ==
    /\ last.op = "resize_num_bytes"
    /\ last.arg = MaxBytes
    /\ Len(last.src) = MaxBytes
    /\ last.src[MaxBytes] = 1
    /\ blocks[TheTree].depth = 2
    /\ tree_data(blocks, TheTree) = last.src


\* C26 (TreeSpec): after write_bytes(data, offset) with offset + data.len() >
\* num_bytes(), num_bytes() is offset + data.len(), the bytes [offset, offset +
\* data.len()) read as data, the bytes [0, min(old_size, offset)) read as
\* before and the gap [old_size, offset) reads as zero.
C26_WritePastEndGrows ==
    (last.op = "write_bytes" /\ last.arg + Len(last.src) > Len(hist.data)) =>
        LET off == last.arg
            len == Len(last.src)
            old == hist.data
            new == tree_data(blocks, TheTree)
        IN  /\ tree_num_bytes(blocks, TheTree) = off + len
            /\ Len(new) = off + len
            /\ read_bytes(blocks, TheTree, off, len) = last.src
            /\ \A i \in 1..Min(Len(old), off) : new[i] = old[i]
            /\ \A i \in (Len(old) + 1)..off : new[i] = 0

\* a write into a new leaf that leaves a gap behind the old end
C26_Witness ==
    /\ last.op = "write_bytes"
    /\ hist.data = <<1>>
    /\ last.arg = 3
    /\ last.src = <<1, 1>>
    /\ tree_data(blocks, TheTree) = <<1, 0, 0, 1, 1>>
    /\ blocks[TheTree].depth = 2


\* C27 (ReadSpec): read_bytes(offset, buf) fails with OutOfRange exactly when
\* offset + buf.len() > num_bytes(), and then no block has changed; otherwise
\* it fills buf with the bytes at [offset, offset + buf.len()).  try_read_bytes
\* with the same arguments does not fail with OutOfRange and returns
\* min(buf.len(), max(0, num_bytes() - offset)), having read that many bytes
\* from offset.
C27_ReadOutOfRange ==
    /\ last.op = "read_bytes" =>
          LET old == tree_data(hist.bs, TheTree)
              off == last.arg
          IN  /\ (last.res = "OutOfRange") <=> (off + hist.len > Len(old))
              /\ last.res = "OutOfRange" => blocks = hist.bs
              /\ last.res # "OutOfRange" =>
                    /\ last.res = "Ok"
                    /\ last.src = SubSeq(old, off + 1, off + hist.len)
    /\ last.op = "try_read_bytes" =>
          LET old == tree_data(hist.bs, TheTree)
              off == last.arg
          IN  /\ last.res = "Ok"
              /\ hist.n = Min(hist.len, Max(0, Len(old) - off))
              /\ last.src = SubSeq(old, off + 1, off + hist.n)
              /\ blocks = hist.bs

\* a try_read_bytes across the end of a two-leaf blob, which read_bytes with
\* the same arguments refuses
C27_Witness ==
    /\ last.op = "try_read_bytes"
    /\ tree_data(blocks, TheTree) = <<0, 1, 1>>
    /\ blocks[TheTree].depth = 1
    /\ last.arg = 2
    /\ hist.len = 2
    /\ hist.n = 1
    /\ last.src = <<1>>
    /\ DataTree_read_bytes(blocks, TheTree, 2, 2).res = "OutOfRange"


C29_OuterConfigRoundTrip ==
    (last.op = "deserialize" /\ buf.tampers = 0) =>
        LET kdf == buf.cfg.kdf_parameters_serialized
            enc == buf.cfg.encrypted_inner_config
            h == Len(HEADER)
            file == buf.bytes
        IN  /\ Len(file) = h + 9 + Len(kdf) + Len(enc)
            /\ SubSeq(file, 1, h) = HEADER
            /\ file[h + 1] = 0
            /\ file[h + 2] = Len(kdf)
            /\ \A i \in (h + 3)..(h + 9) : file[i] = 0
            /\ SubSeq(file, h + 10, h + 9 + Len(kdf)) = kdf
            /\ SubSeq(file, h + 10 + Len(kdf), Len(file)) = enc
            /\ last.res = "Ok"
            /\ kdf_parameters(hist) = kdf
            /\ hist.encrypted_inner_config = enc

\* a round trip of kdf parameters and an inner config that hold NUL bytes
C29_Witness ==
    /\ last.op = "deserialize"
    /\ buf.tampers = 0
    /\ last.res = "Ok"
    /\ hist = OuterConfig(<<0, 7>>, <<0, 7>>)
    /\ buf.cfg = hist

\* C30 (OuterSpec): deserialize returns an OuterConfig only for a file that
\* starts with the bytes of "cryfs.config;1;scrypt" and a NUL; for every other
\* file (no NUL, a header that is another string, a header that is not UTF-8)
\* it returns an error and no OuterConfig, the error for a complete layout
\* being "not UTF-8" or "invalid header".
C30_HeaderChecked ==
    last.op = "deserialize" =>
        LET file == last.src
            h == Len(HEADER)
            good == Len(file) > h /\ SubSeq(file, 1, h + 1) = HEADER \o <<0>>
        IN  /\ ~good => (last.res \in {"ReadError", "NotUtf8", "InvalidHeader"}
                         /\ hist = NoBuf)
            /\ last.res = "Ok" => (good /\ hist # NoBuf)
            /\ last.res = "NotUtf8" => ~utf8_valid(SubSeq(file, 1, FirstNul(file) - 1))
            /\ last.res = "InvalidHeader" =>
                  /\ utf8_valid(SubSeq(file, 1, FirstNul(file) - 1))
                  /\ SubSeq(file, 1, FirstNul(file) - 1) # HEADER

\* a complete file whose header is a well-formed string with one two-byte
\* character in place of two ASCII characters
C30_Witness ==
    /\ last.op = "deserialize"
    /\ last.res = "InvalidHeader"
    /\ buf.tampers = 2
    /\ Len(last.src) = Len(buf.cfg.kdf_parameters_serialized)
                         + Len(buf.cfg.encrypted_inner_config) + Len(HEADER) + 9
    /\ \E i \in 1..(Len(HEADER) - 1) : last.src[i] = 195 /\ last.src[i + 1] = 169


\* C31 (StepSpec): while and after a leaf is shrunk by resize, the size field
\* holds new_num_bytes only in states where every payload byte at an index >=
\* new_num_bytes is zero; as long as the fill of [new_num_bytes,
\* old_num_bytes) has not returned the size field still holds old_num_bytes;
\* and when the last statement has run the block is the one resize returns.
C31_ZeroBeforeSize ==
    (leaf # NoLeaf /\ buf # NoBuf) =>
        /\ (buf.new_num_bytes < buf.old_num_bytes
              /\ leaf.block.size = buf.new_num_bytes) =>
                \A i \in (buf.new_num_bytes + 1)..Len(leaf.block.data) :
                    leaf.block.data[i] = 0
        /\ (\E k \in 1..Len(buf.todo) : buf.todo[k] = "fill") =>
                leaf.block.size = buf.old_num_bytes
        /\ (last.op = "resize_size" /\ buf.todo = <<>>) =>
                leaf.block = resize(buf.start, buf.new_num_bytes)

\* a full leaf of non-zero bytes shrunk to nothing: one byte cleared, one not
\* yet, the size field still the old one
C31_Witness ==
    /\ leaf # NoLeaf
    /\ Resizing
    /\ buf.start.data = <<1, 1>>
    /\ buf.old_num_bytes = MBL
    /\ buf.new_num_bytes = 0
    /\ Cardinality(fill_pending(leaf.block, 0, MBL)) = 1
    /\ leaf.block.size = MBL


\* C32 (LeafSpec): data_mut() is the first size bytes of the payload, the
\* same bytes as data(); bytes written through it are what data() returns;
\* when the leaf is dropped its block in the store holds the data() and the
\* size the leaf had; and a leaf loaded by that block id has this block, so
\* that right after drop and load data() and num_bytes() are those of the
\* dropped leaf.
C32_LeafDurable ==
    /\ leaf # NoLeaf =>
          /\ data_mut(leaf.block) = data(leaf.block)
          /\ Len(data_mut(leaf.block)) = num_bytes(leaf.block)
    /\ last.op = "data_mut" =>
          SubSeq(data(leaf.block), last.arg + 1, last.arg + Len(last.src))
              = last.src
    /\ last.op = "drop" =>
          /\ data(blocks[last.arg]) = last.src
          /\ num_bytes(blocks[last.arg]) = Len(last.src)
    /\ last.op = "load" =>
          /\ leaf.block = blocks[last.arg]
          /\ (hist.op = "drop" /\ hist.arg = last.arg) =>
                /\ data(leaf.block) = hist.src
                /\ num_bytes(leaf.block) = Len(hist.src)

\* a leaf with written bytes, dropped and loaded again by its id
C32_Witness ==
    /\ last.op = "load"
    /\ hist.op = "drop"
    /\ hist.arg = last.arg
    /\ hist.src = <<0, 1>>
    /\ data(leaf.block) = <<0, 1>>
    /\ num_bytes(leaf.block) = MBL


C34_ShortBlockAccepted ==
    /\ last.op = "load_leaf"
    /\ last.res = "ok"
    /\ block_len(leaf.block) = block_size_bytes - 1
    /\ num_bytes(leaf.block) = MBL
    /\ num_bytes(leaf.block) > Len(leaf.block.data)


RECURSIVE Intact(_, _)
Intact(bs, id) ==
    /\ Exists(bs, id)
    /\ IF bs[id].depth = 0 THEN TRUE
       ELSE \A i \in 1..Len(bs[id].children) : Intact(bs, bs[id].children[i])

AllIntact == \A r \in roots : Intact(blocks, r)

\* remove_tree_by_id(id) for an existing block that is not the root of a tree.
RemoveAnyById(id) ==
    /\ id \notin roots
    /\ Intact(blocks, id)
    /\ LET r == remove_tree_by_id(blocks, id)
       IN  /\ blocks' = r.bs
           /\ last' = Ret("remove_tree_by_id", r.res, id, <<>>)
    /\ hist' = [nonroot |-> id]
    /\ UNCHANGED <<roots, leaf, buf>>

AnyNext ==
    \/ CreateTree
    \/ \E id \in CallerIds : TryCreateTree(id)
    \/ \E id \in Ids : (id \in roots => Intact(blocks, id)) /\ RemoveTreeById(id)
    \/ \E id \in Ids : RemoveAnyById(id)
    \/ \E id \in roots, n \in 0..MaxBytes : AllIntact /\ ResizeNumBytes(id, n)
    \/ \E id \in roots, offset \in 0..MaxBytes :
          AllIntact /\ WriteBytes(id, offset, <<1>>)

AnySpec == Init /\ [][AnyNext]_vars

NoDangling ==
    \A id \in Ids :
        (Exists(blocks, id) /\ blocks[id].depth > 0)
            => \A i \in 1..Len(blocks[id].children) :
                   Exists(blocks, blocks[id].children[i])

\* C36 (as stated): after any sequence of create_tree, try_create_tree,
\* resize_num_bytes, write_bytes and successfully completed
\* remove_tree_by_id calls, where remove_tree_by_id may be given any block
\* id present in the store, every child id stored in an inner node refers to
\* a block that exists.
C36_NoDanglingAnyId == NoDangling

\* C36 (amended): as long as every remove_tree_by_id call was given the root
\* id of a tree or an id that has no block, every child id stored in an inner
\* node refers to a block that exists.
C36_NoDanglingRootIds == (hist = NoBuf) => NoDangling

\* A tree was removed by its root id while another tree with an inner node
\* stays in the store.
C36_Witness ==
    /\ hist = NoBuf
    /\ last.op = "remove_tree_by_id"
    /\ last.res = "SuccessfullyRemoved"
    /\ \E r \in roots : blocks[r].depth > 0

\* remove_tree_by_id was given the id of a node below a root and completed;
\* the node above it still names the removed block.
C36_DanglingChild ==
    /\ hist # NoBuf
    /\ last.op = "remove_tree_by_id"
    /\ last.res = "SuccessfullyRemoved"
    /\ ~NoDangling

=============================================================================
